---------------------------- MODULE Spec2Model ----------------------------
(***************************************************************************)
(* A model of samshee: the sectioned-sheet parser / serializer             *)
(* (src/src/samshee/sectionedsheet.py) and the validator engine            *)
(* (src/src/samshee/validation.py).                                        *)
(*                                                                         *)
(* Text is a sequence of one-character strings.  A Python object is a      *)
(* record of one uniform shape (see PyStr, PyInt, PyNone, PyList), so that *)
(* any two objects can be compared.                                        *)
(***************************************************************************)
EXTENDS Integers, Sequences, FiniteSets, TLC

VARIABLES
    pc,          \* position of the driver: which operation ran last
    secname,     \* the section name given to parse_anything (characters)
    contents,    \* the section body given to a section parser (characters)
    result,      \* the section a parser returned, or that it raised
    attempted,   \* parse_anything: the parsers it called, in order
    text,        \* the text given to parse_sectionedsheet
    sheet,       \* what parse_sectionedsheet(text) returned, or that it raised
    jsondoc,     \* a JSON text: sheet.to_json(), or one the caller supplies
    fromjson,    \* what parse_sectionedsheet_from_json(jsondoc) returned or raised
    rendered,    \* str(sheet), or that it raised
    reparsed,    \* what parse_sectionedsheet(rendered) returned or raised
    validation,  \* validate: the validation argument as the caller passed it
    validators,  \* validate: the list it iterates, once the argument is normalized
    vi,          \* validate: the index of the loop it is in (from 1)
    invoked,     \* validate: the indices of the validators evaluated so far, in order
    error,       \* validate: the exception it raised, if any
    cyclestr,    \* the text given to parse_overrideCycles
    cycles,      \* what parse_overrideCycles(cyclestr) returned, or that it raised
    doc,         \* the sheet given to a logic validator
    mindist,     \* check_index_distance: the mindist argument
    verdict,     \* what the logic validator did: it returned, or what it raised
    index_a,     \* pairwise_index_distance: the first index text
    index_b,     \* pairwise_index_distance: the second index text
    distance,    \* what pairwise_index_distance(index_a, index_b) returned
    entry,       \* samplesheetv2: the function the caller constructs the object with
    given,       \* samplesheetv2: the validation list and registry the caller passes
    secsheet,    \* the SectionedSheet passed in: section names and their objects
    cells,       \* the section objects: the kind and the value of each
    samplesheet, \* the SampleSheetV2 object constructed, or that the call raised
    resheet,     \* what to_sectionedsheet of the object returned or raised
    args,        \* __main__: the parsed command-line arguments
    env,         \* __main__: whether the input can be read and the output written
    status,      \* __main__: the exit status, once the process has exited
    stdout,      \* __main__: what was printed to standard output, in order
    steps        \* __main__: the calls made so far, in order

sectionvars == <<secname, contents, result, attempted>>
sheetvars == <<text, sheet, jsondoc, fromjson, rendered, reparsed>>
validatevars == <<validation, validators, vi, invoked, error>>
pairvars == <<index_a, index_b, distance>>
v2vars == <<entry, given, secsheet, cells, samplesheet, resheet>>
mainvars == <<args, env, status, stdout, steps>>
extravars == <<pairvars, v2vars, mainvars>>
logicvars == <<cyclestr, cycles, doc, mindist, verdict, extravars>>
vars == <<pc, sectionvars, sheetvars, validatevars, logicvars>>

-----------------------------------------------------------------------------
(* Characters *)

LF == "\n"
CR == "\r"
SP == " "
COMMA == ","
QUOTE == "\""
LBRACK == "["
RBRACK == "]"

\* the end-of-line mark the csv reader feeds itself after every line
EOL == "EOL"

Digits == <<"0", "1", "2", "3", "4", "5", "6", "7", "8", "9">>

DigitChars == {Digits[i] : i \in 1..10}

DigitValue(c) == (CHOOSE i \in 1..10 : Digits[i] = c) - 1

\* str.isspace for the characters that occur
Whitespace == {SP, LF, CR}

-----------------------------------------------------------------------------
(* Python str methods *)

RECURSIVE lstrip(_, _)
lstrip(s, chars) ==
    IF s = <<>> THEN <<>>
    ELSE IF Head(s) \in chars THEN lstrip(Tail(s), chars)
    ELSE s

RECURSIVE rstrip(_, _)
rstrip(s, chars) ==
    IF s = <<>> THEN <<>>
    ELSE IF s[Len(s)] \in chars THEN rstrip(SubSeq(s, 1, Len(s) - 1), chars)
    ELSE s

strip(s, chars) == lstrip(rstrip(s, chars), chars)

UpperCase == <<"A", "B", "C", "D", "E", "F", "G", "H", "I", "J", "K", "L", "M",
               "N", "O", "P", "Q", "R", "S", "T", "U", "V", "W", "X", "Y", "Z">>

LowerCase == <<"a", "b", "c", "d", "e", "f", "g", "h", "i", "j", "k", "l", "m",
               "n", "o", "p", "q", "r", "s", "t", "u", "v", "w", "x", "y", "z">>

LowerOf(c) ==
    IF \E i \in 1..26 : UpperCase[i] = c
    THEN LowerCase[CHOOSE i \in 1..26 : UpperCase[i] = c]
    ELSE c

lower(s) == [i \in 1..Len(s) |-> LowerOf(s[i])]

endswith(s, suffix) ==
    /\ Len(s) >= Len(suffix)
    /\ SubSeq(s, Len(s) - Len(suffix) + 1, Len(s)) = suffix

-----------------------------------------------------------------------------
(* Python objects: str, int, float, None and list of str, in one record     *)
(* shape                                                                   *)

PyStr(s) == [t |-> "str", s |-> s, n |-> 0, l |-> <<>>]
PyInt(n) == [t |-> "int", s |-> <<>>, n |-> n, l |-> <<>>]
PyNone == [t |-> "none", s |-> <<>>, n |-> 0, l |-> <<>>]
PyList(l) == [t |-> "list", s |-> <<>>, n |-> 0, l |-> l]
PyFloat(n) == [t |-> "float", s |-> <<>>, n |-> n, l |-> <<>>]

\* the keys of an ordered dict, kept as a sequence of <<key, value>> pairs
Keys(d) == [i \in 1..Len(d) |-> d[i][1]]

KeySet(d) == {d[i][1] : i \in 1..Len(d)}

HasKey(d, k) == \E i \in 1..Len(d) : d[i][1] = k

Get(d, k) == d[CHOOSE i \in 1..Len(d) : d[i][1] = k][2]

\* d[k] = v of a dict: a key already present keeps its place
DictSet(d, k, v) ==
    IF HasKey(d, k)
    THEN [i \in 1..Len(d) |-> IF d[i][1] = k THEN <<k, v>> ELSE d[i]]
    ELSE Append(d, <<k, v>>)

\* dict(pairs): later pairs overwrite earlier ones with the same key
RECURSIVE DictOf(_)
DictOf(pairs) ==
    IF pairs = <<>> THEN <<>>
    ELSE LET p == pairs[Len(pairs)]
         IN DictSet(DictOf(SubSeq(pairs, 1, Len(pairs) - 1)), p[1], p[2])

\* del d[k]
DictDel(d, k) == SelectSeq(d, LAMBDA p : p[1] # k)

-----------------------------------------------------------------------------
(* csv.reader(StringIO(s), delimiter=",", quotechar='"'): the reader's     *)
(* character automaton.  A reader state is the automaton state st, the     *)
(* field being collected, the fields of the record being collected, the    *)
(* records returned so far, and whether the reader raised csv.Error.       *)

CsvInit == [st |-> "START_RECORD", field |-> <<>>, fields |-> <<>>,
            rows |-> <<>>, err |-> FALSE]

save_field(p) == [p EXCEPT !.fields = Append(p.fields, p.field), !.field = <<>>]

add_char(p, c) == [p EXCEPT !.field = Append(p.field, c)]

AfterNewline(c) == IF c = EOL THEN "START_RECORD" ELSE "EAT_CRNL"

StartField(p, c) ==
    IF c \in {LF, CR, EOL} THEN [save_field(p) EXCEPT !.st = AfterNewline(c)]
    ELSE IF c = QUOTE THEN [p EXCEPT !.st = "IN_QUOTED_FIELD"]
    ELSE IF c = COMMA THEN [save_field(p) EXCEPT !.st = "START_FIELD"]
    ELSE [add_char(p, c) EXCEPT !.st = "IN_FIELD"]

parse_process_char(p, c) ==
    CASE p.st = "START_RECORD" ->
            IF c = EOL THEN p
            ELSE IF c \in {LF, CR} THEN [p EXCEPT !.st = "EAT_CRNL"]
            ELSE StartField(p, c)
      [] p.st = "START_FIELD" -> StartField(p, c)
      [] p.st = "IN_FIELD" ->
            IF c \in {LF, CR, EOL}
            THEN [save_field(p) EXCEPT !.st = AfterNewline(c)]
            ELSE IF c = COMMA THEN [save_field(p) EXCEPT !.st = "START_FIELD"]
            ELSE add_char(p, c)
      [] p.st = "IN_QUOTED_FIELD" ->
            IF c = EOL THEN p
            ELSE IF c = QUOTE THEN [p EXCEPT !.st = "QUOTE_IN_QUOTED_FIELD"]
            ELSE add_char(p, c)
      [] p.st = "QUOTE_IN_QUOTED_FIELD" ->
            IF c = QUOTE THEN [add_char(p, c) EXCEPT !.st = "IN_QUOTED_FIELD"]
            ELSE IF c = COMMA THEN [save_field(p) EXCEPT !.st = "START_FIELD"]
            ELSE IF c \in {LF, CR, EOL}
            THEN [save_field(p) EXCEPT !.st = AfterNewline(c)]
            ELSE [add_char(p, c) EXCEPT !.st = "IN_FIELD"]
      [] p.st = "EAT_CRNL" ->
            IF c \in {LF, CR} THEN p
            ELSE IF c = EOL THEN [p EXCEPT !.st = "START_RECORD"]
            ELSE [p EXCEPT !.err = TRUE]

\* the record is returned when the automaton is back at START_RECORD
ReturnRecord(p) == [p EXCEPT !.rows = Append(p.rows, p.fields), !.fields = <<>>]

\* after the EOL of a line: the record is complete unless a quoted field is open
ReturnIfComplete(q) ==
    IF q.err \/ q.st # "START_RECORD" THEN q ELSE ReturnRecord(q)

\* the end of one line of the input: the reader feeds EOL
EndOfLine(p) == ReturnIfComplete(parse_process_char(p, EOL))

\* the input is exhausted with the automaton in q: an open field is returned
LastRecord(q) ==
    IF q.err \/ q.st = "START_RECORD" THEN q
    ELSE IF q.field # <<>> \/ q.st = "IN_QUOTED_FIELD"
    THEN ReturnRecord(save_field(q))
    ELSE q

\* the input is exhausted: a last line without "\n", then an open quoted field
EndOfInput(p, s) ==
    LastRecord(IF s # <<>> /\ s[Len(s)] # LF /\ ~p.err THEN EndOfLine(p) ELSE p)

\* the automaton q after the character c: a "\n" ends the line
AfterChar(q, c) == IF c = LF /\ ~q.err THEN EndOfLine(q) ELSE q

RECURSIVE Reader_iternext(_, _, _)
Reader_iternext(p, s, i) ==
    IF p.err \/ i > Len(s) THEN EndOfInput(p, s)
    ELSE Reader_iternext(AfterChar(parse_process_char(p, s[i]), s[i]), s, i + 1)

\* [err |-> the reader raised, rows |-> the records read]
csv_reader(s) == Reader_iternext(CsvInit, s, 1)

-----------------------------------------------------------------------------
(* attempt_cast *)

IsIntLiteral(s) ==
    LET b == strip(s, Whitespace)
    IN b # <<>> /\ \A i \in 1..Len(b) : b[i] \in DigitChars

RECURSIVE DecimalValue(_)
DecimalValue(b) ==
    IF b = <<>> THEN 0
    ELSE 10 * DecimalValue(SubSeq(b, 1, Len(b) - 1)) + DigitValue(b[Len(b)])

\* float(s) of a text without '.', 'e', sign, "inf" or "nan" accepts what int(s)
\* accepts, and those texts never get as far as float(): int() comes first
IsFloatLiteral(s) == IsIntLiteral(s)

\* int(None) and int([...]) raise TypeError, which the bare except swallows
attempt_cast(value) ==
    IF value.t = "str" /\ IsIntLiteral(value.s)
    THEN PyInt(DecimalValue(strip(value.s, Whitespace)))
    ELSE IF value.t = "str" /\ IsFloatLiteral(value.s)
    THEN PyFloat(DecimalValue(strip(value.s, Whitespace)))
    ELSE value

parse_value(contents_) == attempt_cast(PyStr(contents_))

-----------------------------------------------------------------------------
(* Sections.  A section is Settings (kv: an ordered dict), Data (rows: a   *)
(* list of ordered dicts) or Array (elems: a list of values).  A parser    *)
(* returns a section or raises: [ok, sec, exc].                            *)

Settings(kv) == [kind |-> "Settings", kv |-> kv, rows |-> <<>>, elems |-> <<>>]
Data(rows) == [kind |-> "Data", kv |-> <<>>, rows |-> rows, elems |-> <<>>]
Array(elems) == [kind |-> "Array", kv |-> <<>>, rows |-> <<>>, elems |-> elems]

NoSection == [kind |-> "none", kv |-> <<>>, rows |-> <<>>, elems |-> <<>>]

Returns(sec) == [ok |-> TRUE, sec |-> sec, exc |-> ""]
Raises(exc) == [ok |-> FALSE, sec |-> NoSection, exc |-> exc]

\* len([field for field in next(peaker) if field != ""])
ncols(row) == Len(SelectSeq(row, LAMBDA field : field # <<>>))

\* row[0] or row[1] of a settings row raises IndexError when the row is too short
SettingsRowRaises(row) == row = <<>> \/ (row[1] # <<>> /\ Len(row) < 2)

\* [(str(row[0]), parse_value(row[1])) for row in kept]
SettingsItems(kept) ==
    [i \in 1..Len(kept) |-> <<PyStr(kept[i][1]), parse_value(kept[i][2])>>]

\* parse_settings from the rows r the reader yields
SettingsOfRows(r) ==
    IF r.rows = <<>> THEN Raises("csv.Error")
    ELSE IF ncols(r.rows[1]) # 2
    THEN Raises("ValueError: not a two-columns section")
    ELSE IF \E i \in 1..Len(r.rows) : SettingsRowRaises(r.rows[i])
    THEN Raises("IndexError")
    ELSE IF r.err THEN Raises("csv.Error")
    ELSE Returns(Settings(DictOf(SettingsItems(
             SelectSeq(r.rows, LAMBDA row : row # <<>> /\ row[1] # <<>>)))))

parse_settings(contents_) ==
    IF lstrip(contents_, {LF, CR, SP}) = <<>> THEN Returns(Settings(<<>>))
    ELSE SettingsOfRows(csv_reader(lstrip(contents_, {LF, CR, SP})))

\* DictReader.__next__: dict(zip(fieldnames, row)), the surplus of a long row
\* under the key None, None for the missing cells of a short row
RECURSIVE FillMissing(_, _, _)
FillMissing(d, fieldnames, lr) ==
    IF lr >= Len(fieldnames) THEN d
    ELSE FillMissing(DictSet(d, PyStr(fieldnames[lr + 1]), PyNone), fieldnames, lr + 1)

\* dict(zip(fieldnames, row))
ZipDict(fieldnames, row, m) ==
    DictOf([i \in 1..m |-> <<PyStr(fieldnames[i]), PyStr(row[i])>>])

DictReaderRow(fieldnames, row) ==
    IF Len(fieldnames) < Len(row)
    THEN DictSet(ZipDict(fieldnames, row, Len(fieldnames)), PyNone,
                 PyList(SubSeq(row, Len(fieldnames) + 1, Len(row))))
    ELSE FillMissing(ZipDict(fieldnames, row, Len(row)), fieldnames, Len(row))

\* the rows csv.DictReader yields: the first row names the fields and rows
\* without a field are skipped
DictRows(fieldnames, rest) ==
    [i \in 1..Len(rest) |-> DictReaderRow(fieldnames, rest[i])]

DictReader(rows) ==
    DictRows(rows[1], SelectSeq(Tail(rows), LAMBDA row : row # <<>>))

\* all([row[i] is None or len(row[i]) == 0 for i in row.keys()])
EmptyRow(d) ==
    \A i \in 1..Len(d) :
        \/ d[i][2].t = "none"
        \/ d[i][2].t = "str" /\ d[i][2].s = <<>>
        \/ d[i][2].t = "list" /\ d[i][2].l = <<>>

\* re.match(r"^\s*$", x)
IsBlank(x) == \A i \in 1..Len(x) : x[i] \in Whitespace

RECURSIVE DeleteFields(_, _)
DeleteFields(d, fields) ==
    IF fields = <<>> THEN d
    ELSE DeleteFields(DictDel(d, Head(fields)), Tail(fields))

CastRow(d) == [i \in 1..Len(d) |-> <<d[i][1], attempt_cast(d[i][2])>>]

\* the two loops of parse_data over the records d
DeleteAndCast(d, empty_fields) ==
    [i \in 1..Len(d) |-> CastRow(DeleteFields(d[i], empty_fields))]

\* parse_data from the records d that are not empty
DataOfRecords(d) ==
    IF Len(d) < 1 THEN Raises("ValueError: no content in Data Section")
    ELSE IF HasKey(d[1], PyNone) THEN Raises("TypeError")
    ELSE Returns(Data(DeleteAndCast(d,
             SelectSeq(Keys(d[1]), LAMBDA x : IsBlank(x.s)))))

\* parse_data from the rows r the reader yields
DataOfRows(r) ==
    IF r.err THEN Raises("csv.Error")
    ELSE IF r.rows = <<>> THEN Raises("ValueError: no content in Data Section")
    ELSE DataOfRecords(SelectSeq(DictReader(r.rows), LAMBDA row : ~EmptyRow(row)))

parse_data(contents_) == DataOfRows(csv_reader(lstrip(contents_, {LF, CR, SP})))

\* re.match(r"^\[.*\]$", x): '.' is no newline, '$' is the end or before a last "\n"
IsHeader(x) ==
    LET n == IF x # <<>> /\ x[Len(x)] = LF THEN Len(x) - 1 ELSE Len(x)
    IN /\ n >= 2
       /\ x[1] = LBRACK
       /\ x[n] = RBRACK
       /\ \A i \in 2..(n - 1) : x[i] # LF

\* Array.__init__: all([isinstance(o, type(init[0])) for o in init])
UniformlyTyped(elems) == \A i \in 1..Len(elems) : elems[i].t = elems[1].t

\* Array(init)
ArrayOf(elems) ==
    IF ~UniformlyTyped(elems) THEN Raises("AssertionError")
    ELSE Returns(Array(elems))

\* [parse_value(row[0]) for row in kept]
ArrayValues(kept) == [i \in 1..Len(kept) |-> parse_value(kept[i][1])]

\* parse_array from the rows r the reader yields
ArrayOfRows(r) ==
    IF r.rows = <<>> THEN Raises(IF r.err THEN "csv.Error" ELSE "StopIteration")
    ELSE IF ncols(r.rows[1]) # 1
    THEN Raises("ValueError: not a single column section")
    ELSE IF r.err THEN Raises("csv.Error")
    ELSE ArrayOf(ArrayValues(SelectSeq(r.rows,
             LAMBDA row : Len(row) > 0 /\ row[1] # <<>> /\ ~IsHeader(row[1]))))

parse_array(contents_) == ArrayOfRows(csv_reader(lstrip(contents_, {LF, CR, SP})))

Suffix_settings == <<"s", "e", "t", "t", "i", "n", "g", "s">>
Suffix_data == <<"d", "a", "t", "a">>

\* what parse_anything did: the parsers it called, in order, and how it ended
Tried(parsers, res) == [tried |-> parsers, res |-> res]

\* parse_anything as it would be if the section type were always guessed, the
\* name only choosing the parser that is tried first
parse_anything_fallthrough(sectionname, contents_) ==
    LET first == IF endswith(lower(sectionname), Suffix_settings)
                 THEN <<"parse_settings">>
                 ELSE IF endswith(lower(sectionname), Suffix_data)
                 THEN <<"parse_data">>
                 ELSE <<>>
        forced == IF first = <<"parse_settings">> THEN parse_settings(contents_)
                  ELSE parse_data(contents_)
    IN IF first # <<>> /\ forced.ok THEN Tried(first, forced)
       ELSE IF parse_settings(contents_).ok
       THEN Tried(first \o <<"parse_settings">>, parse_settings(contents_))
       ELSE IF parse_data(contents_).ok
       THEN Tried(first \o <<"parse_settings", "parse_data">>, parse_data(contents_))
       ELSE IF parse_array(contents_).ok
       THEN Tried(first \o <<"parse_settings", "parse_data", "parse_array">>,
                  parse_array(contents_))
       ELSE Tried(first \o <<"parse_settings", "parse_data", "parse_array">>,
                  Raises("ValueError: Cannot guess section type"))

\* parse_anything as it would be if the guess tried Data before Settings
parse_anything_data_first(sectionname, contents_) ==
    IF endswith(lower(sectionname), Suffix_settings)
    THEN Tried(<<"parse_settings">>, parse_settings(contents_))
    ELSE IF endswith(lower(sectionname), Suffix_data)
    THEN Tried(<<"parse_data">>, parse_data(contents_))
    ELSE IF parse_data(contents_).ok
    THEN Tried(<<"parse_data">>, parse_data(contents_))
    ELSE IF parse_settings(contents_).ok
    THEN Tried(<<"parse_data", "parse_settings">>, parse_settings(contents_))
    ELSE IF parse_array(contents_).ok
    THEN Tried(<<"parse_data", "parse_settings", "parse_array">>,
               parse_array(contents_))
    ELSE Tried(<<"parse_data", "parse_settings", "parse_array">>,
               Raises("ValueError: Cannot guess section type"))

\* the three try blocks of parse_anything: s, d and a are what parse_settings,
\* parse_data and parse_array do with the contents
TryParsers(s, d, a) ==
    IF s.ok THEN Tried(<<"parse_settings">>, s)
    ELSE IF d.ok THEN Tried(<<"parse_settings", "parse_data">>, d)
    ELSE IF a.ok THEN Tried(<<"parse_settings", "parse_data", "parse_array">>, a)
    ELSE Tried(<<"parse_settings", "parse_data", "parse_array">>,
               Raises("ValueError: Cannot guess section type"))

parse_anything(sectionname, contents_) ==
    IF endswith(lower(sectionname), Suffix_settings)
    THEN Tried(<<"parse_settings">>, parse_settings(contents_))
    ELSE IF endswith(lower(sectionname), Suffix_data)
    THEN Tried(<<"parse_data">>, parse_data(contents_))
    ELSE TryParsers(parse_settings(contents_), parse_data(contents_),
                    parse_array(contents_))

-----------------------------------------------------------------------------
(* SectionedSheet: an ordered dict of sections, a sequence of              *)
(* <<name, section>> pairs.  parse_sectionedsheet returns a sheet or       *)
(* raises: [ok, sheet, exc].                                               *)

SheetReturns(sheet_) == [ok |-> TRUE, sheet |-> sheet_, exc |-> ""]
SheetRaises(exc) == [ok |-> FALSE, sheet |-> <<>>, exc |-> exc]

\* \w of the section pattern
WordChars ==
    {UpperCase[i] : i \in 1..26} \cup {LowerCase[i] : i \in 1..26}
        \cup DigitChars \cup {"_"}

\* the first index >= i of s whose character is in stop, Len(s) + 1 if none
RECURSIVE Scan(_, _, _)
Scan(s, i, stop) ==
    IF i > Len(s) \/ s[i] \in stop THEN i ELSE Scan(s, i + 1, stop)

\* the first index >= i of s whose character is not in chars, Len(s) + 1 if none
RECURSIVE Span(_, _, _)
Span(s, i, chars) ==
    IF i > Len(s) \/ s[i] \notin chars THEN i ELSE Span(s, i + 1, chars)

\* re.findall(r"\[(\w*)\][^\n]*\n([^\[]*)", s) from index i on: the
\* <<name, content>> groups of the non-overlapping matches, left to right
RECURSIVE findall_sections(_, _)
findall_sections(s, i) ==
    IF i > Len(s) THEN <<>>
    ELSE IF s[i] # LBRACK THEN findall_sections(s, i + 1)
    ELSE LET close == Span(s, i + 1, WordChars)
             eol == Scan(s, close + 1, {LF})
             next == Scan(s, eol + 1, {LBRACK})
         IN IF close > Len(s) \/ s[close] # RBRACK \/ eol > Len(s)
            THEN findall_sections(s, i + 1)
            ELSE <<<<SubSeq(s, i + 1, close - 1), SubSeq(s, eol + 1, next - 1)>>>>
                     \o findall_sections(s, next)

\* the loop of parse_sectionedsheet over the matches: res[name] = ..., and the
\* first section that does not parse ends the call
RECURSIVE ParseSections(_, _)
RECURSIVE AddSection(_, _, _)
ParseSections(matches, res) ==
    IF matches = <<>> THEN SheetReturns(res)
    ELSE AddSection(matches, res,
             parse_anything(Head(matches)[1],
                            rstrip(Head(matches)[2], {LF, SP})).res)

\* res[name] = sec for the first of the matches, or the exception
AddSection(matches, res, sec) ==
    IF ~sec.ok THEN SheetRaises("Exception: Error parsing section")
    ELSE ParseSections(Tail(matches), DictSet(res, Head(matches)[1], sec.sec))

parse_sectionedsheet(contents_) ==
    ParseSections(findall_sections(contents_, 1), <<>>)

-----------------------------------------------------------------------------
(* __str__: the csv writer (QUOTE_MINIMAL, lineterminator "\r\n") and the  *)
(* renderings of the sections.  A rendering is a text or raises:           *)
(* [ok, text, exc].                                                        *)

TextReturns(text_) == [ok |-> TRUE, text |-> text_, exc |-> ""]
TextRaises(exc) == [ok |-> FALSE, text |-> <<>>, exc |-> exc]

RECURSIVE IntToText(_)
IntToText(n) ==
    IF n < 10 THEN <<Digits[n + 1]>>
    ELSE Append(IntToText(n \div 10), Digits[(n % 10) + 1])

RECURSIVE Concat(_)
Concat(texts) == IF texts = <<>> THEN <<>> ELSE Head(texts) \o Concat(Tail(texts))

\* repr of a list of str, the text of a list value
ListText(l) ==
    <<"[">> \o Concat([i \in 1..Len(l) |->
                  (IF i > 1 THEN <<COMMA, SP>> ELSE <<>>) \o <<"'">> \o l[i] \o <<"'">>])
        \o <<"]">>

\* the text the writer gives a field: None is empty, a str is itself, str(v) else
FieldText(v) ==
    CASE v.t = "str" -> v.s
      [] v.t = "none" -> <<>>
      [] v.t = "int" -> IntToText(v.n)
      [] v.t = "float" -> IntToText(v.n) \o <<".", "0">>
      [] v.t = "list" -> ListText(v.l)

NeedsQuotes(f) == \E i \in 1..Len(f) : f[i] \in {COMMA, QUOTE, CR, LF}

DoubleQuotes(f) ==
    Concat([i \in 1..Len(f) |-> IF f[i] = QUOTE THEN <<QUOTE, QUOTE>> ELSE <<f[i]>>])

join_append(f) ==
    IF NeedsQuotes(f) THEN <<QUOTE>> \o DoubleQuotes(f) \o <<QUOTE>> ELSE f

\* writer.writerow(values): a lone empty field is written as ""
writerow(values) ==
    LET fields == [i \in 1..Len(values) |-> join_append(FieldText(values[i]))]
        line == Concat([i \in 1..Len(fields) |->
                    (IF i > 1 THEN <<COMMA>> ELSE <<>>) \o fields[i]])
    IN (IF Len(values) = 1 /\ line = <<>> THEN <<QUOTE, QUOTE>> ELSE line)
           \o <<CR, LF>>

Settings_str(kv) ==
    Concat([i \in 1..Len(kv) |-> writerow(<<kv[i][1], kv[i][2]>>)]) \o <<LF, LF>>

\* DictWriter._dict_to_list: a key that is no fieldname raises ValueError, a
\* missing key is written as ""
DictWriterRow(fieldnames, rowdict) ==
    writerow([i \in 1..Len(fieldnames) |->
        IF HasKey(rowdict, fieldnames[i]) THEN Get(rowdict, fieldnames[i])
        ELSE PyStr(<<>>)])

Data_str(sec) ==
    LET fieldnames == Keys(sec.rows[1])
    IN IF Len(sec.rows) + Len(sec.elems) < 1 THEN TextReturns(<<>>)
       ELSE IF sec.elems # <<>> THEN TextRaises("AttributeError")
       ELSE IF \E i \in 1..Len(sec.rows) :
                    \E k \in KeySet(sec.rows[i]) : ~HasKey(sec.rows[1], k)
       THEN TextRaises("ValueError")
       ELSE TextReturns(
                writerow(fieldnames)
                    \o Concat([i \in 1..Len(sec.rows) |->
                           DictWriterRow(fieldnames, sec.rows[i])])
                    \o <<LF, LF>>)

Array_str(elems) ==
    Concat([i \in 1..Len(elems) |->
        IF elems[i].t = "str" THEN <<QUOTE>> \o elems[i].s \o <<QUOTE, LF>>
        ELSE FieldText(elems[i]) \o <<LF>>]) \o <<LF, LF>>

Section_str(sec) ==
    CASE sec.kind = "Settings" -> TextReturns(Settings_str(sec.kv))
      [] sec.kind = "Data" -> Data_str(sec)
      [] sec.kind = "Array" -> TextReturns(Array_str(sec.elems))

SectionedSheet_str(sheet_) ==
    LET bad == {i \in 1..Len(sheet_) : ~Section_str(sheet_[i][2]).ok}
        first == CHOOSE i \in bad : \A j \in bad : i <= j
    IN IF bad # {} THEN TextRaises(Section_str(sheet_[first][2]).exc)
       ELSE TextReturns(Concat([i \in 1..Len(sheet_) |->
                <<LBRACK>> \o sheet_[i][1] \o <<RBRACK, LF>>
                    \o Section_str(sheet_[i][2]).text]))

-----------------------------------------------------------------------------
(* JSON.  A JSON text is kept as the tree it denotes: an object (members:  *)
(* <<key, value>> pairs in order), an array (items), a string, a number or *)
(* null, in one record shape.                                              *)

JObject(members) == [j |-> "object", members |-> members, items |-> <<>>,
                     s |-> <<>>, n |-> 0]
JArray(items) == [j |-> "array", members |-> <<>>, items |-> items,
                  s |-> <<>>, n |-> 0]
JString(s) == [j |-> "string", members |-> <<>>, items |-> <<>>, s |-> s, n |-> 0]
JNumber(n) == [j |-> "number", members |-> <<>>, items |-> <<>>, s |-> <<>>, n |-> n]
JFloat(n) == [j |-> "float", members |-> <<>>, items |-> <<>>, s |-> <<>>, n |-> n]
JNull == [j |-> "null", members |-> <<>>, items |-> <<>>, s |-> <<>>, n |-> 0]

Text_null == <<"n", "u", "l", "l">>

\* json.dumps of a dict key: a str is itself, None becomes "null"
dumps_key(k) ==
    CASE k.t = "str" -> k.s
      [] k.t = "none" -> Text_null
      [] k.t = "int" -> IntToText(k.n)

dumps_value(v) ==
    CASE v.t = "str" -> JString(v.s)
      [] v.t = "int" -> JNumber(v.n)
      [] v.t = "float" -> JFloat(v.n)
      [] v.t = "none" -> JNull
      [] v.t = "list" -> JArray([i \in 1..Len(v.l) |-> JString(v.l[i])])

dumps_dict(d) ==
    JObject([i \in 1..Len(d) |-> <<dumps_key(d[i][1]), dumps_value(d[i][2])>>])

\* a Settings is a dict, a Data and an Array are lists: the class is not written
dumps_section(sec) ==
    CASE sec.kind = "Settings" -> dumps_dict(sec.kv)
      [] sec.kind = "Data" ->
            JArray([i \in 1..Len(sec.rows) |-> dumps_dict(sec.rows[i])]
                       \o [i \in 1..Len(sec.elems) |-> dumps_value(sec.elems[i])])
      [] sec.kind = "Array" ->
            JArray([i \in 1..Len(sec.elems) |-> dumps_value(sec.elems[i])])

\* SectionedSheet.to_json: json.dumps(self)
to_json(sheet_) ==
    JObject([i \in 1..Len(sheet_) |-> <<sheet_[i][1], dumps_section(sheet_[i][2])>>])

\* json.loads(jsonstr, object_pairs_hook=OrderedDict): the members of an object
\* become an OrderedDict, a repeated key keeps its first place and last value
RECURSIVE json_loads(_)
json_loads(v) ==
    CASE v.j = "object" ->
            JObject(DictOf([i \in 1..Len(v.members) |->
                        <<v.members[i][1], json_loads(v.members[i][2])>>]))
      [] v.j = "array" -> JArray([i \in 1..Len(v.items) |-> json_loads(v.items[i])])
      [] OTHER -> v

\* the Python scalar a loaded JSON value is; a list of str for an array
ObjectOf(v) ==
    CASE v.j = "string" -> PyStr(v.s)
      [] v.j = "number" -> PyInt(v.n)
      [] v.j = "float" -> PyFloat(v.n)
      [] v.j = "null" -> PyNone
      [] v.j = "array" -> PyList([i \in 1..Len(v.items) |-> v.items[i].s])

DictOfObject(v) ==
    [i \in 1..Len(v.members) |-> <<PyStr(v.members[i][1]), ObjectOf(v.members[i][2])>>]

\* Settings.__init__: asserts a dict none of whose values is a dict
Settings_init(obj) ==
    IF obj.j # "object" THEN Raises("AssertionError")
    ELSE IF \E i \in 1..Len(obj.members) : obj.members[i][2].j = "object"
    THEN Raises("AssertionError")
    ELSE Returns(Settings(DictOfObject(obj)))

\* Data.__init__: asserts a list and keeps whatever it holds.  The items that
\* are dicts are kept in rows and the items that are not in elems.
Data_init(obj) ==
    IF obj.j # "array" THEN Raises("AssertionError")
    ELSE LET dicts == SelectSeq(obj.items, LAMBDA x : x.j = "object")
             others == SelectSeq(obj.items, LAMBDA x : x.j # "object")
         IN Returns([kind |-> "Data", kv |-> <<>>,
                     rows |-> [i \in 1..Len(dicts) |-> DictOfObject(dicts[i])],
                     elems |-> [i \in 1..Len(others) |-> ObjectOf(others[i])]])

\* Array.__init__ of what guess_section_from_object hands it, which is no list
\* and no dict of scalars: len(init), then init[0], then the type assertion.
\* A str is a sequence of its characters.
Array_init(obj) ==
    CASE obj.j = "string" ->
            Returns(Array([i \in 1..Len(obj.s) |-> PyStr(<<obj.s[i]>>)]))
      [] obj.j = "array" ->
            ArrayOf([i \in 1..Len(obj.items) |-> ObjectOf(obj.items[i])])
      [] obj.j = "object" ->
            IF obj.members = <<>> THEN Returns(Array(<<>>)) ELSE Raises("KeyError")
      [] OTHER -> Raises("TypeError")

guess_section_from_object(obj) ==
    IF Settings_init(obj).ok THEN Settings_init(obj)
    ELSE IF Data_init(obj).ok THEN Data_init(obj)
    ELSE IF Array_init(obj).ok THEN Array_init(obj)
    ELSE Raises("ValueError: Cannot guess section type")

SectionOfObject(k, obj) ==
    IF endswith(lower(k), Suffix_settings) THEN Settings_init(obj)
    ELSE IF endswith(lower(k), Suffix_data) THEN Data_init(obj)
    ELSE guess_section_from_object(obj)

\* parse_sectionedsheet_from_json: the first section that raises ends the call
parse_sectionedsheet_from_json(jsonstr) ==
    LET a == json_loads(jsonstr).members
        bad == {i \in 1..Len(a) : ~SectionOfObject(a[i][1], a[i][2]).ok}
        first == CHOOSE i \in bad : \A j \in bad : i <= j
    IN IF bad # {} THEN SheetRaises(SectionOfObject(a[first][1], a[first][2]).exc)
       ELSE SheetReturns([i \in 1..Len(a) |->
                <<a[i][1], SectionOfObject(a[i][1], a[i][2]).sec>>])

-----------------------------------------------------------------------------
(* validate.  A validator is a dict (a JSON schema), a callable or neither.*)
(* What evaluating it on the sheet gives is part of the validator: errs,   *)
(* the <<json_path, message>> pairs Draft202012Validator.iter_errors       *)
(* yields for a schema, and raises, whether a callable raises, with exc    *)
(* the text of its exception.  named: the object has an attribute "name".  *)

Schema(errs) == [kind |-> "dict", errs |-> errs, raises |-> FALSE, exc |-> "",
                 named |-> FALSE]
Callable(raises, exc) == [kind |-> "callable", errs |-> <<>>, raises |-> raises,
                          exc |-> exc, named |-> FALSE]
NoValidator(named) == [kind |-> "other", errs |-> <<>>, raises |-> FALSE, exc |-> "",
                       named |-> named]

\* an exception of validate: what raised it (config: the check of the list,
\* schema: a schema's violations, callable: a validation function), the index i
\* its message names (from 0), and the <<path, message>> lines of the message
NoError == [type |-> "none", by |-> "", i |-> 0, head |-> "", lines |-> <<>>]

Error(type, by, i, head, lines) ==
    [type |-> type, by |-> by, i |-> i, head |-> head, lines |-> lines]

\* the check of the list as it would be if it let everything through
IsSchemaOrCallable_unchecked(schema) == TRUE

\* isinstance(schema, dict) or callable(schema)
IsSchemaOrCallable(schema) == schema.kind = "dict" \/ schema.kind = "callable"

ConfigurationError(i, schema) ==
    Error("Exception", "config", i,
          IF schema.named
          THEN "validator / schema {schema.name} (#{i}) is not a schema or is not callable."
          ELSE "anonymous validator / schema #{i} is not a schema or is not callable.",
          <<>>)

\* the test as it would be without the branch for a single violation
SchemaRaises_several(errs) == Len(errs) > 1

\* len(errs) == 1 ... elif len(errs) > 1: the schema raises
SchemaRaises(errs) == Len(errs) = 1 \/ Len(errs) > 1

\* the message as it would be if it named the first violation only
SchemaError_first(i, errs) ==
    Error("Exception", "schema", i,
          "validator #{i} ({schema}) raised validation error: ", <<errs[1]>>)

\* the message of the exception a schema with violations raises
SchemaError(i, errs) ==
    IF Len(errs) = 1
    THEN Error("Exception", "schema", i,
               "validator #{i} ({schema}) raised validation error: ", <<errs[1]>>)
    ELSE Error("Exception", "schema", i,
               "validator #{i} ({schema}) raised validation errors:\n",
               [k \in 1..Len(errs) |-> errs[k]])

CallableError(i, exc) ==
    Error("Exception", "callable", i,
          "anonymous validation function #{i} raised validation error: ",
          <<<<"", exc>>>>)

-----------------------------------------------------------------------------
(* parse_overrideCycles.  The result is an ordered dict of                 *)
(* <<role, expansion>> pairs, or the function raises: [ok, cycles, exc],   *)
(* exc the kind of the exception with the role and the expansion its       *)
(* message names.                                                          *)
SEMICOLON == ";"
CycleLetters == {"N", "Y", "I", "U"}

NoCycleError == [kind |-> "", role |-> "", seq |-> <<>>]
CyclesReturns(res) == [ok |-> TRUE, cycles |-> res, exc |-> NoCycleError]
CyclesRaises(kind_, role_, seq_) ==
    [ok |-> FALSE, cycles |-> <<>>, exc |-> [kind |-> kind_, role |-> role_, seq |-> seq_]]

\* int("") raises ValueError
ValueError == CyclesRaises("ValueError", "", <<>>)

\* s.split(sep): never empty, "".split(";") is [""]
RECURSIVE SplitFrom(_, _, _)
SplitFrom(s, sep, j) ==
    IF j > Len(s) THEN <<s>>
    ELSE <<SubSeq(s, 1, j - 1)>>
         \o SplitFrom(SubSeq(s, j + 1, Len(s)), sep,
                      Scan(SubSeq(s, j + 1, Len(s)), 1, {sep}))

split(s, sep) == SplitFrom(s, sep, Scan(s, 1, {sep}))

\* letter * n
Repeat(letter, n) ==
    [i \in 1..(n * Len(letter)) |-> letter[((i - 1) % Len(letter)) + 1]]

Contains(s, c) == \E i \in 1..Len(s) : s[i] = c

\* expand: re.findall("([NYIU]+)([0-9]*);?", short) finds, left to right, each
\* maximal run of letters short[i..j-1] with the digits short[j..k-1] that
\* follow it, skipping what is neither; res += letter * int(freq) for each
RECURSIVE ExpandMatches(_, _)
ExpandAppend(run, rest) ==
    IF rest.ok THEN TextReturns(run \o rest.text) ELSE rest

ExpandFreq(short, i, j, k) ==
    IF k = j THEN TextRaises("ValueError")
    ELSE ExpandAppend(Repeat(SubSeq(short, i, j - 1), DecimalValue(SubSeq(short, j, k - 1))),
                      ExpandMatches(short, IF k <= Len(short) /\ short[k] = SEMICOLON
                                           THEN k + 1 ELSE k))

ExpandLetters(short, i, j) == ExpandFreq(short, i, j, Span(short, j, DigitChars))

ExpandMatch(short, i) ==
    IF i > Len(short) THEN TextReturns(<<>>)
    ELSE ExpandLetters(short, i, Span(short, i, CycleLetters))

ExpandMatches(short, from) == ExpandMatch(short, Scan(short, from, CycleLetters))

expand(short) == ExpandMatches(short, 1)

is_read_or_umi(s) == Contains(s, "Y") \/ Contains(s, "U")

\* the assignment returned as it is, none of the four checks made
RoleChecks_unchecked(res) == CyclesReturns(res)

\* the four checks after the assignment, in the order of the code
RoleChecks(res) ==
    IF ~is_read_or_umi(Get(res, "Read1Cycles"))
    THEN CyclesRaises("is not a read", "Read1Cycles", Get(res, "Read1Cycles"))
    ELSE IF HasKey(res, "Read2Cycles") /\ ~is_read_or_umi(Get(res, "Read2Cycles"))
    THEN CyclesRaises("is not a read", "Read2Cycles", Get(res, "Read2Cycles"))
    ELSE IF HasKey(res, "Index1Cycles") /\ is_read_or_umi(Get(res, "Index1Cycles"))
    THEN CyclesRaises("contains reads", "Index1Cycles", Get(res, "Index1Cycles"))
    ELSE IF HasKey(res, "Index2Cycles") /\ is_read_or_umi(Get(res, "Index2Cycles"))
    THEN CyclesRaises("contains reads", "Index2Cycles", Get(res, "Index2Cycles"))
    ELSE CyclesReturns(res)

\* len(cycles) == 2: cyc is expand(cycles[1])
TwoCycles(read1, cyc) ==
    IF ~cyc.ok THEN ValueError
    ELSE IF is_read_or_umi(cyc.text)
    THEN RoleChecks(<<<<"Read1Cycles", read1>>, <<"Read2Cycles", cyc.text>>>>)
    ELSE RoleChecks(<<<<"Read1Cycles", read1>>, <<"Index1Cycles", cyc.text>>>>)

\* len(cycles) == 3: third is expand(cycles[2]), filed under role
ThirdCycle(read1, index1, role, third) ==
    IF ~third.ok THEN ValueError
    ELSE RoleChecks(<<<<"Read1Cycles", read1>>, <<"Index1Cycles", index1>>,
                      <<role, third.text>>>>)

ThreeCycles(read1, index1, raw) ==
    IF ~index1.ok THEN ValueError
    ELSE IF Contains(raw, "Y")
    THEN ThirdCycle(read1, index1.text, "Read2Cycles", expand(raw))
    ELSE IF Contains(raw, "I") \/ Contains(raw, "N") \/ Contains(raw, "U")
    THEN ThirdCycle(read1, index1.text, "Index2Cycles", expand(raw))
    ELSE CyclesRaises("cannot determine type of third element", "", <<>>)

\* len(cycles) == 4
FourCycles(read1, index1, index2, read2) ==
    IF ~index1.ok \/ ~index2.ok \/ ~read2.ok THEN ValueError
    ELSE RoleChecks(<<<<"Read1Cycles", read1>>, <<"Index1Cycles", index1.text>>,
                      <<"Index2Cycles", index2.text>>, <<"Read2Cycles", read2.text>>>>)

\* res = {"Read1Cycles": expand(cycles[0])} comes before the case distinction
AssignRoles(cycles_, read1) ==
    IF ~read1.ok THEN ValueError
    ELSE IF Len(cycles_) = 2 THEN TwoCycles(read1.text, expand(cycles_[2]))
    ELSE IF Len(cycles_) = 3 THEN ThreeCycles(read1.text, expand(cycles_[2]), cycles_[3])
    ELSE IF Len(cycles_) = 4
    THEN FourCycles(read1.text, expand(cycles_[2]), expand(cycles_[3]), expand(cycles_[4]))
    ELSE IF Len(cycles_) = 1 THEN RoleChecks(<<<<"Read1Cycles", read1.text>>>>)
    ELSE CyclesRaises("defines too many elements", "", <<>>)

SplitCycles(cycles_) ==
    IF Len(cycles_) < 1 THEN CyclesRaises("cannot be parsed", "", <<>>)
    ELSE AssignRoles(cycles_, expand(cycles_[1]))

parse_overrideCycles(cyclestr_) == SplitCycles(split(cyclestr_, SEMICOLON))

-----------------------------------------------------------------------------
(* The logic validators.  The sheet they are given is an ordered dict of   *)
(* sections keyed by the section's name: Reads a dict of cycle counts,     *)
(* BCLConvert_Settings a dict of texts and numbers, BCLConvert_Data a list *)
(* of samples, each a dict with a text under Index and Index2 and a number *)
(* under Lane.  A validator returns or raises: [ok, kind, role, pairs],    *)
(* kind the message of the exception (KeyError for a missing key), role    *)
(* the role or key it names and pairs the index pairs it lists.            *)

Accepts == [ok |-> TRUE, kind |-> "", role |-> "", pairs |-> <<>>]
Rejects(kind_, role_) == [ok |-> FALSE, kind |-> kind_, role |-> role_, pairs |-> <<>>]
KeyError(key) == Rejects("KeyError", key)

\* an Optional[int] is None, or <<m>> for the int m
None == <<>>

Roles == <<"Read1Cycles", "Read2Cycles", "Index1Cycles", "Index2Cycles">>

\* len(set(index)) != len(index)
Unique(index) ==
    IF Cardinality({index[i] : i \in 1..Len(index)}) # Len(index)
    THEN Rejects("Indices are not unique", "")
    ELSE Accepts

\* the lane as an additional identifier prefix
LanePrefix(convertdata, index) ==
    IF HasKey(convertdata[1], "Lane")
    THEN IF \E i \in 1..Len(convertdata) : ~HasKey(convertdata[i], "Lane")
         THEN KeyError("Lane")
         ELSE Unique([i \in 1..Len(index) |->
                         IntToText(Get(convertdata[i], "Lane")) \o index[i]])
    ELSE Unique(index)

\* s.count(c)
Count(s, c) == Cardinality({i \in 1..Len(s) : s[i] = c})

\* every index has at least as many cycles as cyc has I, at most len(cyc)
LengthsFit(indices, cyc) ==
    \A i \in 1..Len(indices) :
        Len(indices[i]) >= Count(cyc, "I") /\ Len(indices[i]) <= Len(cyc)

Index2Logic(convertdata, cycles_, index1) ==
    IF HasKey(convertdata[1], "Index2")
    THEN IF \E i \in 1..Len(convertdata) : ~HasKey(convertdata[i], "Index2")
         THEN KeyError("Index2")
         ELSE IF ~HasKey(cycles_, "Index2Cycles") THEN KeyError("Index2Cycles")
         ELSE IF ~LengthsFit([i \in 1..Len(convertdata) |-> Get(convertdata[i], "Index2")],
                             Get(cycles_, "Index2Cycles"))
         THEN Rejects("Second indices of the samples have a different length", "Index2Cycles")
         ELSE LanePrefix(convertdata,
                         [i \in 1..Len(convertdata) |->
                             index1[i] \o Get(convertdata[i], "Index2")])
    ELSE LanePrefix(convertdata, index1)

Index1Logic(convertdata, cycles_) ==
    IF \E i \in 1..Len(convertdata) : ~HasKey(convertdata[i], "Index")
    THEN Rejects("No Index found in BCLConvert_Data", "")
    ELSE IF ~HasKey(cycles_, "Index1Cycles") THEN KeyError("Index1Cycles")
    ELSE IF ~LengthsFit([i \in 1..Len(convertdata) |-> Get(convertdata[i], "Index")],
                        Get(cycles_, "Index1Cycles"))
    THEN Rejects("First indices of the samples have a different length", "Index1Cycles")
    ELSE Index2Logic(convertdata, cycles_,
                     [i \in 1..Len(convertdata) |-> Get(convertdata[i], "Index")])

\* if "BCLConvert_Data" in doc
DataLogic(doc_, cycles_) ==
    IF HasKey(doc_, "BCLConvert_Data") /\ Len(Get(doc_, "BCLConvert_Data")) > 1
    THEN Index1Logic(Get(doc_, "BCLConvert_Data"), cycles_)
    ELSE Accepts

\* the adapters are not looked at
AdapterLogic_unchecked(doc_, convertsettings, readsettings, cycles_) ==
    DataLogic(doc_, cycles_)

\* AdapterRead1 and AdapterRead2 against Reads
AdapterLogic(doc_, convertsettings, readsettings, cycles_) ==
    IF HasKey(convertsettings, "AdapterRead1") /\ ~HasKey(readsettings, "Read1Cycles")
    THEN KeyError("Read1Cycles")
    ELSE IF /\ HasKey(convertsettings, "AdapterRead1")
            /\ Len(Get(convertsettings, "AdapterRead1")) > Get(readsettings, "Read1Cycles")
    THEN Rejects("BCLConvert_Settings.AdapterRead1 is longer then Reads.Read1Cycles", "Read1Cycles")
    ELSE IF HasKey(convertsettings, "AdapterRead2") /\ ~HasKey(readsettings, "Read2Cycles")
    THEN Rejects("AdapterRead2 defined in BCLConvert_Settings, but no Read2Cycles entry in Reads",
                 "Read2Cycles")
    ELSE IF /\ HasKey(convertsettings, "AdapterRead2")
            /\ Len(Get(convertsettings, "AdapterRead2")) > Get(readsettings, "Read2Cycles")
    THEN Rejects("BCLConvert_Settings.AdapterRead2 is longer then Reads.Read2Cycles", "Read2Cycles")
    ELSE DataLogic(doc_, cycles_)

\* the second loop is left out
ReadsInCycles_unchecked(doc_, convertsettings, readsettings, cycles_, i) ==
    AdapterLogic(doc_, convertsettings, readsettings, cycles_)

\* the second loop: each of the four roles that Reads has must be in cycles
RECURSIVE ReadsInCycles(_, _, _, _, _)
ReadsInCycles(doc_, convertsettings, readsettings, cycles_, i) ==
    IF i > Len(Roles) THEN AdapterLogic(doc_, convertsettings, readsettings, cycles_)
    ELSE IF HasKey(readsettings, Roles[i]) /\ ~HasKey(cycles_, Roles[i])
    THEN Rejects("Reads defines it, but BCLConvert_Settings.OverrideCycles is incompatible with it",
                 Roles[i])
    ELSE ReadsInCycles(doc_, convertsettings, readsettings, cycles_, i + 1)

\* the first loop: each item of cycles must be in Reads, with its length
RECURSIVE CyclesInReads(_, _, _, _, _)
CyclesInReads(doc_, convertsettings, readsettings, cycles_, i) ==
    IF i > Len(cycles_) THEN ReadsInCycles(doc_, convertsettings, readsettings, cycles_, 1)
    ELSE IF ~HasKey(readsettings, cycles_[i][1])
    THEN Rejects("BCLConvert_Settings.OverrideCycles defines it, but it is not specified in the Reads section",
                 cycles_[i][1])
    ELSE IF Get(readsettings, cycles_[i][1]) # Len(cycles_[i][2])
    THEN Rejects("Reads has it, but BCLConvert_Settings.OverrideCycles specifies another length",
                 cycles_[i][1])
    ELSE CyclesInReads(doc_, convertsettings, readsettings, cycles_, i + 1)

\* cycles = parse_overrideCycles(...): what it raises is raised here
OverrideCyclesLogic(doc_, convertsettings, readsettings, parsed) ==
    IF ~parsed.ok THEN Rejects(parsed.exc.kind, parsed.exc.role)
    ELSE CyclesInReads(doc_, convertsettings, readsettings, parsed.cycles, 1)

\* k.startswith("Read"), for the keys Reads has here
StartsWithRead(k) == k \in {"Read1Cycles", "Read2Cycles"}

\* the dummy overrideCycles structure: Y or I, as many as Reads says
DummyCycles(readsettings) ==
    [i \in 1..Len(readsettings) |->
        <<readsettings[i][1],
          Repeat(IF StartsWithRead(readsettings[i][1]) THEN <<"Y">> ELSE <<"I">>,
                 readsettings[i][2])>>]

SettingsLogic(doc_, convertsettings, readsettings) ==
    IF HasKey(convertsettings, "OverrideCycles")
    THEN OverrideCyclesLogic(doc_, convertsettings, readsettings,
                             parse_overrideCycles(Get(convertsettings, "OverrideCycles")))
    ELSE AdapterLogic(doc_, convertsettings, readsettings, DummyCycles(readsettings))

\* doc["Reads"] is looked up as soon as BCLConvert_Settings is in doc
illuminasamplesheetv2logic(doc_) ==
    IF HasKey(doc_, "BCLConvert_Settings")
    THEN IF ~HasKey(doc_, "Reads") THEN KeyError("Reads")
         ELSE SettingsLogic(doc_, Get(doc_, "BCLConvert_Settings"), Get(doc_, "Reads"))
    ELSE DataLogic(doc_, <<>>)

-----------------------------------------------------------------------------
(* check_index_distance.  An index entry is the list of a sample's index   *)
(* texts, one per index field; an index distance is [dist, a, b]: the list *)
(* of distances, one per field, and the two entries compared.              *)

TooClose == "Indices are too close and undistinguishable"
CombinedTooClose == "Combined index is too close and undistinguishable"

RejectsPairs(kind_, pairs_) ==
    [ok |-> FALSE, kind |-> kind_, role |-> "", pairs |-> pairs_]

\* sum([shorter[i] != longer[i] ...]), shorter filled up with the end of longer
FilledDistance(shorter, longer) ==
    Cardinality({i \in 1..Len(shorter) : shorter[i] # longer[i]})

\* FillAndCompare without the filling: the positions beyond the shorter text
\* count as differences
FillAndCompare_unfilled(shorter, longer) ==
    Cardinality({i \in 1..Len(longer) : i > Len(shorter) \/ shorter[i] # longer[i]})

FillAndCompare(shorter, longer) ==
    IF Len(shorter) < Len(longer)
    THEN FilledDistance(shorter \o SubSeq(longer, Len(shorter) + 1, Len(longer)), longer)
    ELSE FilledDistance(shorter, longer)

pairwise_index_distance(a, b) ==
    FillAndCompare(IF Len(a) < Len(b) THEN a ELSE b, IF Len(a) >= Len(b) THEN a ELSE b)

\* itertools.combinations(range(n), 2): the pairs <<i, j>>, i < j, in
\* lexicographic order
Combinations(n) ==
    SelectSeq([k \in 1..(n * n) |-> <<((k - 1) \div n) + 1, ((k - 1) % n) + 1>>],
              LAMBDA c : c[1] < c[2])

IndexDistance(a_, b_) ==
    [dist |-> [i \in 1..Len(a_) |-> pairwise_index_distance(a_[i], b_[i])],
     a |-> a_, b |-> b_]

\* one entry: the entry with itself and the lengths of its indices; no entry
\* raises, which check_index never gets to: a lane is the lane of a sample
index_distances(indices) ==
    IF Len(indices) = 1
    THEN <<[dist |-> [i \in 1..Len(indices[1]) |-> Len(indices[1][i])],
            a |-> indices[1], b |-> indices[1]]>>
    ELSE [k \in 1..Len(Combinations(Len(indices))) |->
             IndexDistance(indices[Combinations(Len(indices))[k][1]],
                           indices[Combinations(Len(indices))[k][2]])]

\* the set lanes, in the order a CPython set of small ints is iterated:
\* ascending
RECURSIVE LaneOrder(_)
LaneOrder(lanes) ==
    IF lanes = {} THEN <<>>
    ELSE <<CHOOSE l \in lanes : \A m \in lanes : l <= m>>
         \o LaneOrder(lanes \ {CHOOSE l \in lanes : \A m \in lanes : l <= m})

Lanes(convertdata) ==
    {IF HasKey(convertdata[i], "Lane") THEN Get(convertdata[i], "Lane") ELSE 1 :
        i \in 1..Len(convertdata)}

\* every sample, whatever its lane
ThisLaneData_all(convertdata, lane) == convertdata

ThisLaneData(convertdata, lane) ==
    SelectSeq(convertdata, LAMBDA i : ~HasKey(i, "Lane") \/ Get(i, "Lane") = lane)

IndexEntries(this_lane_data, indexnames) ==
    [i \in 1..Len(this_lane_data) |->
        [n \in 1..Len(indexnames) |->
            IF HasKey(this_lane_data[i], indexnames[n])
            THEN Get(this_lane_data[i], indexnames[n]) ELSE <<>>]]

Mismatches(convertsettings, mismatchnames) ==
    [n \in 1..Len(mismatchnames) |->
        IF HasKey(convertsettings, mismatchnames[n])
        THEN Get(convertsettings, mismatchnames[n]) ELSE 1]

\* the pairs within the mismatches in some field
Matching_any(indexdist, mismatches) ==
    SelectSeq(indexdist, LAMBDA t : \E n \in 1..Len(mismatches) : t.dist[n] <= mismatches[n])

\* the pairs within the mismatches in every field
Matching(indexdist, mismatches) ==
    SelectSeq(indexdist, LAMBDA t : \A n \in 1..Len(mismatches) : t.dist[n] <= mismatches[n])

\* the pairs whose combined indices are closer than mindist
MatchingCombined(indexdist, m) ==
    SelectSeq(indexdist, LAMBDA t : t.dist[1] < m)

Combined(index) == [i \in 1..Len(index) |-> <<Concat(index[i])>>]

\* the body of the loop over the lanes, and the loop
RECURSIVE CheckLanes(_, _, _, _, _, _)
CheckCombined(doc_, indexnames, mismatchnames, mindist_, lanes, k, matchingindices) ==
    IF Len(matchingindices) > 0 THEN RejectsPairs(CombinedTooClose, matchingindices)
    ELSE CheckLanes(doc_, indexnames, mismatchnames, mindist_, lanes, k + 1)

CheckMismatches(doc_, indexnames, mismatchnames, mindist_, lanes, k, index, matchingindices) ==
    IF Len(matchingindices) > 0 THEN RejectsPairs(TooClose, matchingindices)
    ELSE IF mindist_ # None
    THEN CheckCombined(doc_, indexnames, mismatchnames, mindist_, lanes, k,
                       MatchingCombined(index_distances(Combined(index)), mindist_[1]))
    ELSE CheckLanes(doc_, indexnames, mismatchnames, mindist_, lanes, k + 1)

CheckLane(doc_, indexnames, mismatchnames, mindist_, lanes, k, index) ==
    IF ~HasKey(doc_, "BCLConvert_Settings") THEN KeyError("BCLConvert_Settings")
    ELSE CheckMismatches(doc_, indexnames, mismatchnames, mindist_, lanes, k, index,
                         Matching(index_distances(index),
                                  Mismatches(Get(doc_, "BCLConvert_Settings"), mismatchnames)))

CheckLanes(doc_, indexnames, mismatchnames, mindist_, lanes, k) ==
    IF k > Len(lanes) THEN Accepts
    ELSE CheckLane(doc_, indexnames, mismatchnames, mindist_, lanes, k,
                   IndexEntries(ThisLaneData(Get(doc_, "BCLConvert_Data"), lanes[k]),
                                indexnames))

check_index(doc_, indexnames, mismatchnames, mindist_) ==
    CheckLanes(doc_, indexnames, mismatchnames, mindist_,
               LaneOrder(Lanes(Get(doc_, "BCLConvert_Data"))), 1)

\* the index fields of the first sample decide which fields are checked
CheckFields(doc_, mindist_, first) ==
    IF HasKey(first, "Index") /\ HasKey(first, "Index2")
    THEN check_index(doc_, <<"Index", "Index2">>,
                     <<"BarcodeMismatchesIndex1", "BarcodeMismatchesIndex2">>, mindist_)
    ELSE IF HasKey(first, "Index")
    THEN check_index(doc_, <<"Index">>, <<"BarcodeMismatchesIndex1">>, mindist_)
    ELSE IF HasKey(first, "Index2")
    THEN check_index(doc_, <<"Index2">>, <<"BarcodeMismatchesIndex2">>, mindist_)
    ELSE Accepts

\* the check of mindist as it is left out
MindistRaises_unchecked(mindist_) == FALSE

MindistRaises(mindist_) == mindist_ # None /\ mindist_[1] < 1

check_index_distance(doc_, mindist_) ==
    IF MindistRaises(mindist_) THEN Rejects("ValueError", "")
    ELSE IF ~HasKey(doc_, "BCLConvert_Data") THEN KeyError("BCLConvert_Data")
    ELSE IF Len(Get(doc_, "BCLConvert_Data")) = 0 THEN Rejects("IndexError", "")
    ELSE CheckFields(doc_, mindist_, Get(doc_, "BCLConvert_Data")[1])

-----------------------------------------------------------------------------
(* basespacelogic.  The verdicts it can give: the common Sample_IDs are    *)
(* walked in the order of a set of strings, which differs from run to run, *)
(* so any of the mismatching Sample_IDs can be the one it reports.         *)

NoCloudData == "no Cloud_Data section"
NoConvertData == "no BCLConvert_Data section"
NotInCloud == "Sample_ID is defined in the BCLConvert_Data section, but not in the Cloud_Data section."
IndexMismatch == "Index does not match between Cloud_Data and BCLConvert_Data"

\* [i["Sample_ID"] for i in table] raises KeyError for a record without it
LacksSampleId(table) == \E i \in 1..Len(table) : ~HasKey(table[i], "Sample_ID")

SampleIds(table) == {Get(table[i], "Sample_ID") : i \in 1..Len(table)}

\* the first convert_id that is not in cloud_sample_ids
FirstNotIn(table, ids) ==
    Get(table[CHOOSE i \in 1..Len(table) :
                /\ Get(table[i], "Sample_ID") \notin ids
                /\ \A j \in 1..(i - 1) : Get(table[j], "Sample_ID") \in ids],
        "Sample_ID")

\* {x["Sample_ID"]: x for x in table}[sampleid]: the last record with that
\* Sample_ID replaces the earlier ones
SampleOf(table, sampleid) ==
    table[CHOOSE i \in 1..Len(table) :
            /\ Get(table[i], "Sample_ID") = sampleid
            /\ \A j \in (i + 1)..Len(table) : Get(table[j], "Sample_ID") # sampleid]

\* for index in ["Index", "Index2"]: in both records and unequal
IndexDiffers(cloudsample, convertsample) ==
    \E n \in 1..2 :
        /\ HasKey(cloudsample, <<"Index", "Index2">>[n])
        /\ HasKey(convertsample, <<"Index", "Index2">>[n])
        /\ Get(cloudsample, <<"Index", "Index2">>[n]) # Get(convertsample, <<"Index", "Index2">>[n])

\* the common Sample_IDs whose records differ in an index
Mismatching(cloud, convert) ==
    {sampleid \in SampleIds(cloud) \cap SampleIds(convert) :
        IndexDiffers(SampleOf(cloud, sampleid), SampleOf(convert, sampleid))}

CompareSamples(cloud, convert) ==
    IF Mismatching(cloud, convert) = {} THEN {Accepts}
    ELSE {Rejects(IndexMismatch, sampleid) : sampleid \in Mismatching(cloud, convert)}

CompareIds(cloud, convert) ==
    IF LacksSampleId(cloud) \/ LacksSampleId(convert) THEN {KeyError("Sample_ID")}
    ELSE IF \E i \in 1..Len(convert) : Get(convert[i], "Sample_ID") \notin SampleIds(cloud)
    THEN {Rejects(NotInCloud, FirstNotIn(convert, SampleIds(cloud)))}
    ELSE CompareSamples(cloud, convert)

basespacelogic(doc_) ==
    IF ~HasKey(doc_, "Cloud_Data") THEN {Rejects(NoCloudData, "")}
    ELSE IF ~HasKey(doc_, "BCLConvert_Data") THEN {Rejects(NoConvertData, "")}
    ELSE CompareIds(Get(doc_, "Cloud_Data"), Get(doc_, "BCLConvert_Data"))

-----------------------------------------------------------------------------
(* validate as one call, for the callers in samplesheetv2.py and           *)
(* __main__.py.  A sheet is an ordered dict from section names to          *)
(* references into cells, the section objects; a cell is the kind of the   *)
(* section and its value.  A validator of the list is a schema {"$ref": urn}, a       *)
(* function or neither.  A registry is a dict from the urn of a schema to  *)
(* the schema: the sections it requires and, for the sections it has       *)
(* properties for, the keys it requires of each, which must be an object.  *)
(* The values of the sheets validated here satisfy the types and patterns  *)
(* that the schemas give for them.                                         *)

Cell(kind_, value_) == [kind |-> kind_, value |-> value_]

\* the sheet as a function of the list reads it: the values of its sections
\* by name
DocOf(secsheet_, cells_) ==
    [i \in 1..Len(secsheet_) |-> <<secsheet_[i][1], cells_[secsheet_[i][2]].value>>]

RefSchema(urn) == [kind |-> "dict", ref |-> urn, fn |-> "", named |-> FALSE]
Function(fn) == [kind |-> "callable", ref |-> "", fn |-> fn, named |-> FALSE]
NotAValidator == [kind |-> "other", ref |-> "", fn |-> "", named |-> FALSE]

illuminasamplesheetv2schema ==
    [required |-> <<"Header", "Reads">>,
     properties |-> <<<<"Header", <<"FileFormatVersion">>>>,
                      <<"Reads", <<"Read1Cycles">>>>,
                      <<"Sequencing_Settings", <<>>>>,
                      <<"BCLConvert_Settings", <<"SoftwareVersion">>>>>>]

nextseq1k2kschema ==
    [required |-> <<"Header", "Reads">>, properties |-> <<<<"Reads", <<>>>>>>]

\* registry: the registry of the library with its two schemas
samsheeschemaregistry ==
    <<<<"urn:samshee:illuminav2/v1", illuminasamplesheetv2schema>>,
      <<"urn:samshee:illuminav2-nextseq/v1", nextseq1k2kschema>>>>

\* the members of required that d lacks, each reported at path
MissingFrom(d, required, path) ==
    [k \in 1..Len(SelectSeq(required, LAMBDA name : ~HasKey(d, name))) |->
        <<path, SelectSeq(required, LAMBDA name : ~HasKey(d, name))[k]>>]

\* the violations of the schema of one section: it is no object, or it lacks
\* required keys
PropertyErrors(secsheet_, cells_, name, required) ==
    IF ~HasKey(secsheet_, name) THEN <<>>
    ELSE IF cells_[Get(secsheet_, name)].kind # "Settings"
    THEN <<<<name, "is not of type 'object'">>>>
    ELSE MissingFrom(cells_[Get(secsheet_, name)].value, required, name)

\* Draft202012Validator(schema, registry).iter_errors(doc): the violations of
\* "required", then those of "properties" in the order of the schema
iter_errors(secsheet_, cells_, schema) ==
    MissingFrom(secsheet_, schema.required, "$")
        \o Concat([k \in 1..Len(schema.properties) |->
                     PropertyErrors(secsheet_, cells_, schema.properties[k][1],
                                    schema.properties[k][2])])

\* schema(doc) for a function of the list: illuminasamplesheetv2logic, or a
\* function of the caller that accepts every sheet
CallFunction(fn, doc_) ==
    IF fn = "illuminasamplesheetv2logic" THEN illuminasamplesheetv2logic(doc_)
    ELSE Accepts

SchemaOutcome(i, errs) ==
    IF SchemaRaises(errs) THEN SchemaError(i, errs) ELSE NoError

FunctionOutcome(i, verdict_) ==
    IF verdict_.ok THEN NoError ELSE CallableError(i, verdict_.kind)

\* one turn of the second loop of validate: the error validator #i raises, or
\* none.  A $ref the registry cannot resolve raises in iter_errors.
RunValidator(i, schema, secsheet_, cells_, registry_) ==
    IF schema.kind = "dict"
    THEN IF ~HasKey(registry_, schema.ref)
         THEN Error("Unresolvable", "schema", i, schema.ref, <<>>)
         ELSE SchemaOutcome(i, iter_errors(secsheet_, cells_, Get(registry_, schema.ref)))
    ELSE IF schema.kind = "callable"
    THEN FunctionOutcome(i, CallFunction(schema.fn, DocOf(secsheet_, cells_)))
    ELSE ConfigurationError(i, schema)

RECURSIVE RunFrom(_, _, _, _, _)
RunFrom(i, validation_, secsheet_, cells_, registry_) ==
    IF i > Len(validation_) THEN NoError
    ELSE IF RunValidator(i - 1, validation_[i], secsheet_, cells_, registry_) # NoError
    THEN RunValidator(i - 1, validation_[i], secsheet_, cells_, registry_)
    ELSE RunFrom(i + 1, validation_, secsheet_, cells_, registry_)

\* the first loop of validate: the first entry that is neither schema nor
\* callable
FirstNoValidator(validation_) ==
    CHOOSE i \in 1..Len(validation_) :
        /\ ~IsSchemaOrCallable(validation_[i])
        /\ \A j \in 1..(i - 1) : IsSchemaOrCallable(validation_[j])

\* validate(doc, validation, registry) with a list: the error it raises, or
\* NoError when it returns
validate(secsheet_, cells_, validation_, registry_) ==
    IF \E i \in 1..Len(validation_) : ~IsSchemaOrCallable(validation_[i])
    THEN ConfigurationError(FirstNoValidator(validation_) - 1,
                            validation_[FirstNoValidator(validation_)])
    ELSE RunFrom(1, validation_, secsheet_, cells_, registry_)

-----------------------------------------------------------------------------
(* samplesheetv2.py.  Several dicts can hold the same section object.      *)

Suffix__Settings == <<"_", "S", "e", "t", "t", "i", "n", "g", "s">>
Suffix__Data == <<"_", "D", "a", "t", "a">>

SheetNames == {"Header", "Reads", "BCLConvert_Settings", "BCLConvert_Data", "Cloud_Data"}

\* the characters of a section name
Spelling(name) ==
    CASE name = "Header" -> <<"H", "e", "a", "d", "e", "r">>
      [] name = "Reads" -> <<"R", "e", "a", "d", "s">>
      [] name = "BCLConvert_Settings" -> <<"B", "C", "L", "C", "o", "n", "v", "e", "r", "t">> \o Suffix__Settings
      [] name = "BCLConvert_Data" -> <<"B", "C", "L", "C", "o", "n", "v", "e", "r", "t">> \o Suffix__Data
      [] name = "Cloud_Data" -> <<"C", "l", "o", "u", "d">> \o Suffix__Data

\* the section name with these characters
Named(chars) == CHOOSE name \in SheetNames : Spelling(name) = chars

\* the object under construction, or the exception that ended it; 0: the
\* object has no such attribute
NewSampleSheet(cells_, validation_, registry_) ==
    [ok |-> TRUE, exc |-> NoError, validation |-> validation_, registry |-> registry_,
     applications |-> <<>>, header |-> 0, reads |-> 0, cells |-> cells_]

NoSampleSheet(exc_, cells_) ==
    [ok |-> FALSE, exc |-> exc_, validation |-> <<>>, registry |-> <<>>,
     applications |-> <<>>, header |-> 0, reads |-> 0, cells |-> cells_]

\* secname(k): group 1 of ^(.*)_(Settings|Data)$, or k
SectionName(k) ==
    IF endswith(k, Suffix__Settings) THEN SubSeq(k, 1, Len(k) - Len(Suffix__Settings))
    ELSE IF endswith(k, Suffix__Data) THEN SubSeq(k, 1, Len(k) - Len(Suffix__Data))
    ELSE k

NoApplication == [settings |-> 0, data |-> 0]

\* self.applications[sectionname][slot] = secsheet[key]: the same object
SetApplication(obj, sectionname, slot, ref) ==
    [obj EXCEPT !.applications =
        DictSet(obj.applications, sectionname,
                [(IF HasKey(obj.applications, sectionname)
                  THEN Get(obj.applications, sectionname)
                  ELSE NoApplication) EXCEPT ![slot] = ref])]

\* the header kept as the sheet's own object, which is emptied
CopyHeader_taken(obj, ref) ==
    [obj EXCEPT !.cells = [obj.cells EXCEPT ![ref] = Cell("Settings", <<>>)],
                !.header = ref]

\* self.header = Settings(secsheet["Header"]): a new object with the same
\* entries; Settings asserts that it is given a dict
CopyHeader(obj, ref) ==
    IF obj.cells[ref].kind # "Settings"
    THEN NoSampleSheet(Error("AssertionError", "Settings", 0,
                             "Settings: init argument is not a dict", <<>>),
                       obj.cells)
    ELSE [obj EXCEPT !.cells = Append(obj.cells, obj.cells[ref]),
                     !.header = Len(obj.cells) + 1]

\* one turn of the loop over secsheet.keys()
GroupSection(obj, key, ref) ==
    IF endswith(Spelling(key), Suffix__Settings)
    THEN SetApplication(obj, SectionName(Spelling(key)), "settings", ref)
    ELSE IF endswith(Spelling(key), Suffix__Data)
    THEN SetApplication(obj, SectionName(Spelling(key)), "data", ref)
    ELSE IF key = "Header" THEN CopyHeader(obj, ref)
    ELSE IF key = "Reads" THEN [obj EXCEPT !.reads = ref]
    ELSE obj

RECURSIVE GroupFrom(_, _, _)
GroupFrom(i, secsheet_, obj) ==
    IF i > Len(secsheet_) \/ ~obj.ok THEN obj
    ELSE GroupFrom(i + 1, secsheet_, GroupSection(obj, secsheet_[i][1], secsheet_[i][2]))

Construct(err, secsheet_, cells_, validation_, registry_) ==
    IF err # NoError THEN NoSampleSheet(err, cells_)
    ELSE GroupFrom(1, secsheet_, NewSampleSheet(cells_, validation_, registry_))

\* SampleSheetV2(secsheet, validation, registry)
SampleSheetV2(secsheet_, cells_, validation_, registry_) ==
    Construct(validate(secsheet_, cells_, validation_, registry_),
              secsheet_, cells_, validation_, registry_)

\* the sections of the applications, settings before data
RECURSIVE ApplicationSections(_)
ApplicationSections(applications) ==
    IF applications = <<>> THEN <<>>
    ELSE (IF applications[1][2].settings # 0
          THEN <<<<Named(applications[1][1] \o Suffix__Settings), applications[1][2].settings>>>>
          ELSE <<>>)
         \o (IF applications[1][2].data # 0
             THEN <<<<Named(applications[1][1] \o Suffix__Data), applications[1][2].data>>>>
             ELSE <<>>)
         \o ApplicationSections(Tail(applications))

\* res of to_sectionedsheet: Header, Reads, then the applications
Regrouped(obj) ==
    (IF obj.header # 0 THEN <<<<"Header", obj.header>>>> ELSE <<>>)
        \o (IF obj.reads # 0 THEN <<<<"Reads", obj.reads>>>> ELSE <<>>)
        \o ApplicationSections(obj.applications)

SheetResult(err, res) ==
    IF err # NoError THEN [ok |-> FALSE, sheet |-> <<>>, exc |-> err]
    ELSE [ok |-> TRUE, sheet |-> res, exc |-> NoError]

\* self.to_sectionedsheet(validate_schema)
to_sectionedsheet(obj, validate_schema) ==
    SheetResult(IF validate_schema
                THEN validate(Regrouped(obj), obj.cells, obj.validation, obj.registry)
                ELSE NoError,
                Regrouped(obj))

\* the default of the validation argument
DefaultValidation ==
    <<RefSchema("urn:samshee:illuminav2/v1"), Function("illuminasamplesheetv2logic")>>

\* read_samplesheetv2, on the sheet read_sectionedsheet returned
read_samplesheetv2(secsheet_, cells_, validation_, registry_) ==
    SampleSheetV2(secsheet_, cells_, validation_, registry_)

\* parse_samplesheetv2_from_json, on the sheet parse_sectionedsheet_from_json
\* returned
parse_samplesheetv2_from_json(secsheet_, cells_, validation_, registry_) ==
    SampleSheetV2(secsheet_, cells_, validation_, samsheeschemaregistry)

\* parse_samplesheetv2_from_object: it calls parse_samplesheetv2_from_json
\* with the text of the object alone
parse_samplesheetv2_from_object(secsheet_, cells_, validation_, registry_) ==
    parse_samplesheetv2_from_json(secsheet_, cells_, DefaultValidation, samsheeschemaregistry)

-----------------------------------------------------------------------------
(* __main__.py.  A step of the log is the name of the step and the class   *)
(* of the exception that ended it, if any.                                 *)

Step(name, raised_) == [step |-> name, raised |-> raised_]

\* json.loads(schema) of a --schema argument: a dict with a $ref, a value
\* that is no dict, or no JSON text, for which json.loads raises
LoadedSchema(schema) ==
    IF schema = "1" THEN NotAValidator ELSE RefSchema("urn:samshee:illuminav2/v1")

\* validate(sheet, validation=[json.loads(schema) for schema in args.schema])
ValidateSchemas(secsheet_, cells_, schemas) ==
    IF \E i \in 1..Len(schemas) : schemas[i] = "{"
    THEN Error("JSONDecodeError", "argument", 0, "", <<>>)
    ELSE validate(secsheet_, cells_, [i \in 1..Len(schemas) |-> LoadedSchema(schemas[i])],
                  samsheeschemaregistry)

\* what print is given for the output format, or the exception raised while
\* it is made: SampleSheetV2(sheet) validates with the default list, and
\* printing it calls to_sectionedsheet, which validates again
Printed(output_format, secsheet_, cells_, obj) ==
    IF output_format = "v2"
    THEN IF ~obj.ok THEN SheetResult(obj.exc, <<>>)
         ELSE to_sectionedsheet(obj, TRUE)
    ELSE SheetResult(NoError, secsheet_)

\* the class of an exception of the emit step
RaisedClass(err) ==
    IF err.type = "Exception" /\ err.by \in {"schema", "callable", "config"}
    THEN "validation error"
    ELSE "other error"

-----------------------------------------------------------------------------
(* The inputs of the section parsers *)

MaxBodyLen == 6

BodyChars == {"a", "1", COMMA, LF, QUOTE}

MaxPlainLen == 9

\* the characters of the longer bodies: one cell text, the comma and the newline
PlainChars == {"a", COMMA, LF}

Texts(chars, n) == UNION {[1..k -> chars] : k \in 0..n}

Name_Reads == <<"R", "e", "a", "d", "s">>
Name_X_DATA == <<"X", "_", "D", "A", "T", "A">>
Name_Data_Settings ==
    <<"D", "a", "t", "a", "_", "S", "e", "t", "t", "i", "n", "g", "s">>

SectionNames == {Name_Reads, Name_X_DATA, Name_Data_Settings}

NotRun == [ok |-> FALSE, sec |-> NoSection, exc |-> "not run"]

\* the variables of the other specifications, while one of them runs
SectionIdle ==
    /\ secname = <<>>
    /\ contents = <<>>
    /\ result = NotRun
    /\ attempted = <<>>

ValidateIdle ==
    /\ validation = [form |-> "list", items |-> <<>>]
    /\ validators = <<>>
    /\ vi = 0
    /\ invoked = <<>>
    /\ error = NoError

SheetIdle ==
    /\ text = <<>>
    /\ sheet = SheetRaises("not run")
    /\ jsondoc = JNull
    /\ fromjson = SheetRaises("not run")
    /\ rendered = TextRaises("not run")
    /\ reparsed = SheetRaises("not run")

NoDoc == <<>>
NoVerdict == [ok |-> FALSE, kind |-> "not run", role |-> "", pairs |-> <<>>]

PairIdle ==
    /\ index_a = <<>>
    /\ index_b = <<>>
    /\ distance = None

NoArgs == [input_format |-> "", output_format |-> "", schema |-> <<>>]

V2Idle ==
    /\ entry = ""
    /\ given = [validation |-> <<>>, registry |-> <<>>]
    /\ secsheet = <<>>
    /\ cells = <<>>
    /\ samplesheet = NoSampleSheet(NoError, <<>>)
    /\ resheet = [ok |-> FALSE, sheet |-> <<>>, exc |-> NoError]

MainIdle ==
    /\ args = NoArgs
    /\ env = [readable |-> FALSE, writable |-> FALSE]
    /\ status = None
    /\ stdout = <<>>
    /\ steps = <<>>

ExtraIdle == PairIdle /\ V2Idle /\ MainIdle

LogicIdle ==
    /\ cyclestr = <<>>
    /\ cycles = CyclesRaises("not run", "", <<>>)
    /\ doc = NoDoc
    /\ mindist = None
    /\ verdict = NoVerdict
    /\ ExtraIdle

-----------------------------------------------------------------------------
(* SpecParsers: one call of parse_settings, parse_data or parse_array on a *)
(* section body.  SpecSection: one call of parse_anything on a named       *)
(* section.                                                                *)

InitParsers ==
    /\ pc = "start"
    /\ secname = <<>>
    /\ contents \in Texts(BodyChars, MaxBodyLen) \cup Texts(PlainChars, MaxPlainLen)
    /\ result = NotRun
    /\ attempted = <<>>
    /\ SheetIdle
    /\ ValidateIdle
    /\ LogicIdle

call_parse_settings ==
    /\ pc = "start"
    /\ result' = parse_settings(contents)
    /\ pc' = "parse_settings"
    /\ UNCHANGED <<logicvars, secname, contents, attempted, sheetvars, validatevars>>

call_parse_data ==
    /\ pc = "start"
    /\ result' = parse_data(contents)
    /\ pc' = "parse_data"
    /\ UNCHANGED <<logicvars, secname, contents, attempted, sheetvars, validatevars>>

call_parse_array ==
    /\ pc = "start"
    /\ result' = parse_array(contents)
    /\ pc' = "parse_array"
    /\ UNCHANGED <<logicvars, secname, contents, attempted, sheetvars, validatevars>>

NextParsers ==
    \/ call_parse_settings
    \/ call_parse_data
    \/ call_parse_array

SpecParsers == InitParsers /\ [][NextParsers]_vars

InitSection ==
    /\ pc = "start"
    /\ secname \in SectionNames
    /\ contents \in Texts(BodyChars, MaxBodyLen)
    /\ result = NotRun
    /\ attempted = <<>>
    /\ SheetIdle
    /\ ValidateIdle
    /\ LogicIdle

call_parse_anything ==
    /\ pc = "start"
    /\ \E r \in {parse_anything(secname, contents)} :
           /\ result' = r.res
           /\ attempted' = r.tried
    /\ pc' = "parse_anything"
    /\ UNCHANGED <<logicvars, secname, contents, sheetvars, validatevars>>

NextSection == call_parse_anything

SpecSection == InitSection /\ [][NextSection]_vars

-----------------------------------------------------------------------------
(* SpecSheet: a sheet text is parsed, and the sheet is written as JSON and *)
(* read back, or rendered as text and parsed again; or the caller supplies *)
(* a JSON text of its own to parse_sectionedsheet_from_json.               *)

MaxSections == 2
MaxSheetLen == 5

SectionText(name, body) == <<LBRACK>> \o name \o <<RBRACK, LF>> \o body

RECURSIVE Sum(_)
Sum(f) == IF f = <<>> THEN 0 ELSE Head(f) + Sum(Tail(f))

\* the text of the sections named names, the i-th with the next lens[i]
\* characters of chars as its body
RECURSIVE SheetText(_, _, _)
SheetText(names, lens, chars) ==
    IF names = <<>> THEN <<>>
    ELSE SectionText(Head(names), SubSeq(chars, 1, Head(lens)))
             \o SheetText(Tail(names), Tail(lens),
                          SubSeq(chars, Head(lens) + 1, Len(chars)))

A1 == <<"a", "1">>

\* the values a caller-supplied JSON text gives a section
JsonSectionValues ==
    {JObject(<<>>),
     JObject(<<<<A1, JNumber(1)>>>>),
     JObject(<<<<A1, JString(A1)>>, <<A1, JNull>>>>),
     JObject(<<<<A1, JObject(<<>>)>>>>),
     JArray(<<>>),
     JArray(<<JObject(<<<<A1, JNumber(1)>>>>)>>),
     JArray(<<JNumber(1)>>),
     JArray(<<JNumber(1), JString(A1)>>),
     JString(A1),
     JNumber(1),
     JNull}

InitSheet ==
    /\ SectionIdle
    /\ ValidateIdle
    /\ LogicIdle
    /\ sheet = SheetRaises("not run")
    /\ fromjson = SheetRaises("not run")
    /\ rendered = TextRaises("not run")
    /\ reparsed = SheetRaises("not run")
    /\ \/ /\ pc = "start"
          /\ \E k \in 1..MaxSections, n \in 0..MaxSheetLen :
                 \E names \in [1..k -> SectionNames], lens \in [1..k -> 0..n],
                    chars \in [1..n -> BodyChars] :
                     /\ Sum(lens) = n
                     /\ text = SheetText(names, lens, chars)
          /\ jsondoc = JNull
       \/ /\ pc = "json_input"
          /\ text = <<>>
          /\ \E k \in 1..MaxSections :
                 \E members \in [1..k -> SectionNames \X JsonSectionValues] :
                     jsondoc = JObject(members)

call_parse_sectionedsheet ==
    /\ pc = "start"
    /\ sheet' = parse_sectionedsheet(text)
    /\ pc' = "parsed"
    /\ UNCHANGED <<logicvars, sectionvars, validatevars, text, jsondoc, fromjson, rendered, reparsed>>

call_to_json ==
    /\ pc = "parsed"
    /\ sheet.ok
    /\ jsondoc' = to_json(sheet.sheet)
    /\ pc' = "to_json"
    /\ UNCHANGED <<logicvars, sectionvars, validatevars, text, sheet, fromjson, rendered, reparsed>>

call_parse_sectionedsheet_from_json ==
    /\ pc \in {"to_json", "json_input"}
    /\ fromjson' = parse_sectionedsheet_from_json(jsondoc)
    /\ pc' = "from_json"
    /\ UNCHANGED <<logicvars, sectionvars, validatevars, text, sheet, jsondoc, rendered, reparsed>>

call_str ==
    /\ pc = "parsed"
    /\ sheet.ok
    /\ rendered' = SectionedSheet_str(sheet.sheet)
    /\ pc' = "str"
    /\ UNCHANGED <<logicvars, sectionvars, validatevars, text, sheet, jsondoc, fromjson, reparsed>>

call_parse_rendered ==
    /\ pc = "str"
    /\ rendered.ok
    /\ reparsed' = parse_sectionedsheet(rendered.text)
    /\ pc' = "reparsed"
    /\ UNCHANGED <<logicvars, sectionvars, validatevars, text, sheet, jsondoc, fromjson, rendered>>

NextSheet ==
    \/ call_parse_sectionedsheet
    \/ call_to_json
    \/ call_parse_sectionedsheet_from_json
    \/ call_str
    \/ call_parse_rendered

SpecSheet == InitSheet /\ [][NextSheet]_vars

-----------------------------------------------------------------------------
(* SpecValidate: one call of validate, a step of one of its two loops at a *)
(* time.                                                                   *)

MaxValidators == 3
MaxErrs == 2

Violations ==
    {<<"$.Header.FileFormatVersion", "2 was expected">>,
     <<"$", "'Reads' is a required property">>}

Validators ==
    {Schema(errs) : errs \in UNION {[1..n -> Violations] : n \in 0..MaxErrs}}
        \cup {Callable(FALSE, ""), Callable(TRUE, "Indices are not unique.")}
        \cup {NoValidator(FALSE), NoValidator(TRUE)}

\* the validation argument: a list, one validator that is no list, or None
InitValidate ==
    /\ pc = "call"
    /\ SectionIdle
    /\ SheetIdle
    /\ LogicIdle
    /\ \/ \E n \in 0..MaxValidators : \E items \in [1..n -> Validators] :
              validation = [form |-> "list", items |-> items]
       \/ \E v \in Validators : validation = [form |-> "single", items |-> <<v>>]
       \/ validation = [form |-> "none", items |-> <<>>]
    /\ validators = <<>>
    /\ vi = 0
    /\ invoked = <<>>
    /\ error = NoError

\* lines 573-580: the argument is made a list; enumerate(None) raises TypeError
validate_enter ==
    /\ pc = "call"
    /\ IF validation.form = "none"
       THEN /\ error' = Error("TypeError", "argument", 0,
                              "'NoneType' object is not iterable", <<>>)
            /\ pc' = "raised"
            /\ UNCHANGED <<validators, vi>>
       ELSE /\ validators' = validation.items
            /\ vi' = 1
            /\ pc' = "check"
            /\ UNCHANGED error
    /\ UNCHANGED <<logicvars, sectionvars, sheetvars, validation, invoked>>

\* lines 581-590: one turn of the loop that checks the list
validate_check ==
    /\ pc = "check"
    /\ IF vi > Len(validators)
       THEN /\ pc' = "run"
            /\ vi' = 1
            /\ UNCHANGED error
       ELSE IF ~IsSchemaOrCallable(validators[vi])
       THEN /\ error' = ConfigurationError(vi - 1, validators[vi])
            /\ pc' = "raised"
            /\ UNCHANGED vi
       ELSE /\ vi' = vi + 1
            /\ UNCHANGED <<pc, error>>
    /\ UNCHANGED <<logicvars, sectionvars, sheetvars, validation, validators, invoked>>

\* lines 592-615: one turn of the loop that runs the validators
validate_run ==
    /\ pc = "run"
    /\ IF vi > Len(validators)
       THEN /\ pc' = "returned"
            /\ UNCHANGED <<vi, invoked, error>>
       ELSE LET schema == validators[vi]
            IN IF schema.kind = "dict"
               THEN /\ invoked' = Append(invoked, vi)
                    /\ IF SchemaRaises(schema.errs)
                       THEN /\ error' = SchemaError(vi - 1, schema.errs)
                            /\ pc' = "raised"
                            /\ UNCHANGED vi
                       ELSE /\ vi' = vi + 1
                            /\ UNCHANGED <<pc, error>>
               ELSE IF schema.kind = "callable"
               THEN /\ invoked' = Append(invoked, vi)
                    /\ IF schema.raises
                       THEN /\ error' = CallableError(vi - 1, schema.exc)
                            /\ pc' = "raised"
                            /\ UNCHANGED vi
                       ELSE /\ vi' = vi + 1
                            /\ UNCHANGED <<pc, error>>
               ELSE /\ error' = ConfigurationError(vi - 1, schema)
                    /\ pc' = "raised"
                    /\ UNCHANGED <<vi, invoked>>
    /\ UNCHANGED <<logicvars, sectionvars, sheetvars, validation, validators>>

NextValidate ==
    \/ validate_enter
    \/ validate_check
    \/ validate_run

SpecValidate == InitValidate /\ [][NextValidate]_vars

-----------------------------------------------------------------------------
(* SpecCycles: one call of parse_overrideCycles.  The text is any text of  *)
(* up to MaxCycleLen characters, or up to MaxSegments of the segments      *)
(* below joined with ";".                                                  *)

MaxCycleLen == 5
MaxSegments == 5

CycleChars == CycleLetters \cup {"0", "1", SEMICOLON}

Segments ==
    { <<>>,
      <<"Y", "2">>,
      <<"I", "1">>,
      <<"N", "1", "U", "2">>,
      <<"Y", "0">>,
      <<"Y">> }

RECURSIVE Join(_, _)
Join(texts, sep) ==
    IF Len(texts) = 1 THEN texts[1]
    ELSE texts[1] \o <<sep>> \o Join(Tail(texts), sep)

CycleStrings ==
    Texts(CycleChars, MaxCycleLen)
        \cup UNION {{Join(segs, SEMICOLON) : segs \in [1..k -> Segments]} : k \in 1..MaxSegments}

InitCycles ==
    /\ pc = "start"
    /\ cyclestr \in CycleStrings
    /\ cycles = CyclesRaises("not run", "", <<>>)
    /\ doc = NoDoc
    /\ mindist = None
    /\ verdict = NoVerdict
    /\ ExtraIdle
    /\ SectionIdle
    /\ SheetIdle
    /\ ValidateIdle

call_parse_overrideCycles ==
    /\ pc = "start"
    /\ cycles' = parse_overrideCycles(cyclestr)
    /\ pc' = "parse_overrideCycles"
    /\ UNCHANGED <<cyclestr, doc, mindist, verdict, extravars, sectionvars, sheetvars, validatevars>>

NextCycles == call_parse_overrideCycles

SpecCycles == InitCycles /\ [][NextCycles]_vars

-----------------------------------------------------------------------------
(* SpecLogic: one call of illuminasamplesheetv2logic.  Either Reads and    *)
(* BCLConvert_Settings range over every choice below with one of a few     *)
(* sample tables, or BCLConvert_Data ranges over every table of up to      *)
(* MaxSamples samples with one of a few Reads and BCLConvert_Settings.     *)

MaxReadCycles == 2
MaxAdapterLen == 3
MaxSamples == 2

\* a dict with the key under each of the values, and without the key
Optional(key, values) == {<<>>} \cup {<<<<key, v>>>> : v \in values}

\* Reads: each role absent (0) or with a cycle count
ReadsOf(counts) ==
    LET present == SelectSeq(<<1, 2, 3, 4>>, LAMBDA i : counts[i] > 0)
    IN [j \in 1..Len(present) |-> <<Roles[present[j]], counts[present[j]]>>]

ReadsChoices == {ReadsOf(counts) : counts \in [1..4 -> 0..MaxReadCycles]}

OverrideCyclesChoices ==
    { <<"Y", "2">>,
      <<"Y", "2", ";", "I", "1">>,
      <<"Y", "2", ";", "Y", "1">>,
      <<"Y", "1", ";", "I", "2", ";", "Y", "2">>,
      <<"Y", "1", ";", "I", "1", ";", "I", "2", ";", "Y", "2">>,
      <<"I", "1">> }

Adapters == {Repeat(<<"A">>, n) : n \in 1..MaxAdapterLen}

SettingsChoices ==
    {o \o a \o b : o \in Optional("OverrideCycles", OverrideCyclesChoices),
                   a \in Optional("AdapterRead1", Adapters),
                   b \in Optional("AdapterRead2", Adapters)}

Samples ==
    {i \o j \o l : i \in Optional("Index", {<<"A">>, <<"A", "C">>}),
                   j \in Optional("Index2", {<<"A">>, <<"C", "A">>}),
                   l \in Optional("Lane", {1, 2})}

TwoSamples ==
    << <<<<"Index", <<"A">>>>>>, <<<<"Index", <<"A", "C">>>>>> >>

ReadsWithIndices == <<<<"Read1Cycles", 2>>, <<"Index1Cycles", 2>>, <<"Index2Cycles", 2>>>>
IndexCycles ==
    <<"Y", "2", ";", "I", "1", "N", "1", ";", "I", "1", "N", "1">>

\* the Reads and BCLConvert_Settings that the sample tables are tried with
IndexContexts ==
    { <<>>,
      <<<<"Reads", <<<<"Read1Cycles", 2>>>>>>, <<"BCLConvert_Settings", <<>>>>>>,
      <<<<"Reads", ReadsWithIndices>>, <<"BCLConvert_Settings", <<>>>>>>,
      <<<<"Reads", ReadsWithIndices>>,
        <<"BCLConvert_Settings", <<<<"OverrideCycles", IndexCycles>>>>>>>> }

InitLogic ==
    /\ pc = "start"
    /\ \/ \E r \in Optional("Reads", ReadsChoices),
              s \in Optional("BCLConvert_Settings", SettingsChoices),
              d \in Optional("BCLConvert_Data", {TwoSamples}) :
              doc = r \o s \o d
       \/ \E c \in IndexContexts, n \in 0..MaxSamples :
              \E d \in [1..n -> Samples] :
                  doc = c \o <<<<"BCLConvert_Data", d>>>>
    /\ verdict = NoVerdict
    /\ cyclestr = <<>>
    /\ cycles = CyclesRaises("not run", "", <<>>)
    /\ mindist = None
    /\ ExtraIdle
    /\ SectionIdle
    /\ SheetIdle
    /\ ValidateIdle

call_illuminasamplesheetv2logic ==
    /\ pc = "start"
    /\ verdict' = illuminasamplesheetv2logic(doc)
    /\ pc' = "illuminasamplesheetv2logic"
    /\ UNCHANGED <<doc, cyclestr, cycles, mindist, extravars, sectionvars, sheetvars, validatevars>>

NextLogic == call_illuminasamplesheetv2logic

SpecLogic == InitLogic /\ [][NextLogic]_vars

-----------------------------------------------------------------------------
(* SpecDistance: one call of check_index_distance.  Either up to           *)
(* MaxIndexed samples without Lane, with every choice of the mismatch      *)
(* settings and of mindist, or up to MaxLaneSamples samples with or        *)
(* without Lane, with a few of them.                                       *)

MaxIndexed == 2
MaxLaneSamples == 3
MaxMindist == 3

Mindists == {None} \cup {<<m>> : m \in -1..MaxMindist}

MismatchSettings ==
    {a \o b : a \in Optional("BarcodeMismatchesIndex1", {0, 1, 2}),
              b \in Optional("BarcodeMismatchesIndex2", {0})}

IndexedSamples ==
    {i \o j : i \in Optional("Index", {<<"T">>, <<"T", "T", "T", "T">>,
                                       <<"T", "T", "T", "A">>, <<"T", "T", "A", "A">>}),
              j \in Optional("Index2", {<<"A", "C", "A", "A">>, <<"A", "C", "T", "T">>})}

LaneSamples ==
    {i \o l : i \in {<<<<"Index", x>>>> : x \in {<<"T">>, <<"T", "T", "T", "T">>,
                                                 <<"T", "T", "T", "A">>}},
              l \in Optional("Lane", {1, 2})}

InitDistance ==
    /\ pc = "start"
    /\ \/ \E s \in Optional("BCLConvert_Settings", MismatchSettings),
              n \in 0..MaxIndexed :
              \E d \in [1..n -> IndexedSamples] :
                  /\ doc = <<<<"Reads", <<>>>>>> \o s \o <<<<"BCLConvert_Data", d>>>>
                  /\ mindist \in Mindists
       \/ \E n \in 0..MaxLaneSamples :
              \E d \in [1..n -> LaneSamples] :
                  /\ doc = <<<<"Reads", <<>>>>, <<"BCLConvert_Settings", <<>>>>,
                             <<"BCLConvert_Data", d>>>>
                  /\ mindist \in {None, <<2>>}
       \/ /\ doc = <<<<"Reads", <<>>>>, <<"BCLConvert_Settings", <<>>>>>>
          /\ mindist \in Mindists
    /\ verdict = NoVerdict
    /\ cyclestr = <<>>
    /\ cycles = CyclesRaises("not run", "", <<>>)
    /\ ExtraIdle
    /\ SectionIdle
    /\ SheetIdle
    /\ ValidateIdle

call_check_index_distance ==
    /\ pc = "start"
    /\ verdict' = check_index_distance(doc, mindist)
    /\ pc' = "check_index_distance"
    /\ UNCHANGED <<doc, mindist, cyclestr, cycles, extravars, sectionvars, sheetvars, validatevars>>

NextDistance == call_check_index_distance

SpecDistance == InitDistance /\ [][NextDistance]_vars

-----------------------------------------------------------------------------
(* SpecPairwise: one call of pairwise_index_distance on two index texts    *)

MaxIndexLen == 3
Bases == {"A", "C"}

IndexTexts == UNION {[1..n -> Bases] : n \in 0..MaxIndexLen}

InitPairwise ==
    /\ pc = "start"
    /\ index_a \in IndexTexts
    /\ index_b \in IndexTexts
    /\ distance = None
    /\ cyclestr = <<>>
    /\ cycles = CyclesRaises("not run", "", <<>>)
    /\ doc = NoDoc
    /\ mindist = None
    /\ verdict = NoVerdict
    /\ V2Idle
    /\ MainIdle
    /\ SectionIdle
    /\ SheetIdle
    /\ ValidateIdle

call_pairwise_index_distance ==
    /\ pc = "start"
    /\ distance' = <<pairwise_index_distance(index_a, index_b)>>
    /\ pc' = "pairwise_index_distance"
    /\ UNCHANGED <<index_a, index_b, cyclestr, cycles, doc, mindist, verdict,
                   v2vars, mainvars, sectionvars, sheetvars, validatevars>>

NextPairwise == call_pairwise_index_distance

SpecPairwise == InitPairwise /\ [][NextPairwise]_vars

-----------------------------------------------------------------------------
(* SpecBasespace: one call of basespacelogic on a sheet with a Cloud_Data  *)
(* and a BCLConvert_Data table                                             *)

MaxRecords == 2

\* records with a Sample_ID and perhaps an Index
IdentifiedSamples ==
    {<<<<"Sample_ID", s>>>> \o i : s \in {"s1", "s2"}, i \in Optional("Index", {<<"A">>, <<"C">>})}

\* one record of sample s1 with perhaps an Index and an Index2, or a record
\* without Sample_ID
SingleSamples ==
    {<<<<"Sample_ID", "s1">>>> \o i \o j :
        i \in Optional("Index", {<<"A">>}), j \in Optional("Index2", {<<"A">>, <<"C">>})}
    \cup {<<<<"Index", <<"A">>>>>>}

InitBasespace ==
    /\ pc = "start"
    /\ \/ \E n, k \in 0..MaxRecords :
              \E c \in [1..n -> IdentifiedSamples], d \in [1..k -> IdentifiedSamples] :
                  doc = <<<<"Cloud_Data", c>>, <<"BCLConvert_Data", d>>>>
       \/ \E c, d \in SingleSamples :
              doc = <<<<"Cloud_Data", <<c>>>>, <<"BCLConvert_Data", <<d>>>>>>
       \/ \E c \in Optional("Cloud_Data", {<<>>}), d \in Optional("BCLConvert_Data", {<<>>}) :
              doc = <<<<"Reads", <<>>>>>> \o c \o d
    /\ verdict = NoVerdict
    /\ cyclestr = <<>>
    /\ cycles = CyclesRaises("not run", "", <<>>)
    /\ mindist = None
    /\ ExtraIdle
    /\ SectionIdle
    /\ SheetIdle
    /\ ValidateIdle

call_basespacelogic ==
    /\ pc = "start"
    /\ verdict' \in basespacelogic(doc)
    /\ pc' = "basespacelogic"
    /\ UNCHANGED <<doc, mindist, cyclestr, cycles, extravars, sectionvars, sheetvars, validatevars>>

NextBasespace == call_basespacelogic

SpecBasespace == InitBasespace /\ [][NextBasespace]_vars

-----------------------------------------------------------------------------
(* SpecSampleSheet: a SampleSheetV2 is constructed from a sheet through    *)
(* one of the four functions of samplesheetv2.py, with the validation list *)
(* and the registry of the caller, and is then turned back into a sheet.   *)

MaxListed == 2

\* a registry of the caller: the library's schemas and one of its own
CallerRegistry ==
    Append(samsheeschemaregistry,
           <<"urn:caller:cloud", [required |-> <<"Cloud_Data">>, properties |-> <<>>]>>)

ValidatorChoices ==
    {RefSchema("urn:samshee:illuminav2/v1"), RefSchema("urn:caller:cloud"),
     Function("illuminasamplesheetv2logic"), NotAValidator}

TwoIndexed == <<<<<<"Index", <<"A">>>>>>, <<<<"Index", <<"C">>>>>>>>

\* the section objects a sheet can hold under a name
SectionChoices(name) ==
    CASE name = "Header" ->
            {Cell("Settings", <<<<"FileFormatVersion", 2>>>>), Cell("Data", <<>>)}
      [] name = "Reads" -> {Cell("Settings", <<<<"Read1Cycles", 2>>>>)}
      [] name = "BCLConvert_Settings" ->
            {Cell("Settings", <<>>),
             Cell("Settings", <<<<"SoftwareVersion", <<"1", ".", "0">>>>>>),
             Cell("Settings", <<<<"SoftwareVersion", <<"1", ".", "0">>>>,
                                <<"AdapterRead1", <<"A", "A", "A">>>>>>)}
      [] name = "BCLConvert_Data" -> {Cell("Data", <<>>), Cell("Data", TwoIndexed)}
      [] name = "Cloud_Data" -> {Cell("Data", <<>>)}

CanonicalOrder ==
    <<"Header", "Reads", "BCLConvert_Settings", "BCLConvert_Data", "Cloud_Data">>

\* the section names of a sheet, in its order: any selection in the usual
\* order, and two other orders
SheetOrders ==
    {SelectSeq(CanonicalOrder, LAMBDA name : name \in chosen) : chosen \in SUBSET SheetNames}
        \cup {<<"BCLConvert_Data", "Reads", "BCLConvert_Settings", "Header">>,
              <<"Cloud_Data", "BCLConvert_Data", "Header">>}

Entries ==
    {"SampleSheetV2", "read_samplesheetv2", "parse_samplesheetv2_from_json",
     "parse_samplesheetv2_from_object"}

InitSampleSheet ==
    /\ pc = "start"
    /\ entry \in Entries
    /\ \E n \in 0..MaxListed : \E validation_ \in [1..n -> ValidatorChoices] :
           \E registry_ \in {samsheeschemaregistry, CallerRegistry} :
               given = [validation |-> validation_, registry |-> registry_]
    /\ \E names \in SheetOrders :
           /\ secsheet = [i \in 1..Len(names) |-> <<names[i], i>>]
           /\ cells \in [1..Len(names) -> UNION {SectionChoices(name) : name \in SheetNames}]
           /\ \A i \in 1..Len(names) : cells[i] \in SectionChoices(names[i])
    /\ samplesheet = NoSampleSheet(NoError, <<>>)
    /\ resheet = [ok |-> FALSE, sheet |-> <<>>, exc |-> NoError]
    /\ PairIdle
    /\ MainIdle
    /\ cyclestr = <<>>
    /\ cycles = CyclesRaises("not run", "", <<>>)
    /\ doc = NoDoc
    /\ mindist = None
    /\ verdict = NoVerdict
    /\ SectionIdle
    /\ SheetIdle
    /\ ValidateIdle

\* the call of the function the caller chose
Constructed(entry_, secsheet_, cells_, validation_, registry_) ==
    CASE entry_ = "SampleSheetV2" -> SampleSheetV2(secsheet_, cells_, validation_, registry_)
      [] entry_ = "read_samplesheetv2" ->
            read_samplesheetv2(secsheet_, cells_, validation_, registry_)
      [] entry_ = "parse_samplesheetv2_from_json" ->
            parse_samplesheetv2_from_json(secsheet_, cells_, validation_, registry_)
      [] entry_ = "parse_samplesheetv2_from_object" ->
            parse_samplesheetv2_from_object(secsheet_, cells_, validation_, registry_)

Store(obj) ==
    /\ samplesheet' = obj
    /\ cells' = obj.cells

call_constructor ==
    /\ pc = "start"
    /\ Store(Constructed(entry, secsheet, cells, given.validation, given.registry))
    /\ pc' = "constructed"
    /\ UNCHANGED <<entry, given, secsheet, resheet, pairvars, mainvars, cyclestr, cycles,
                   doc, mindist, verdict, sectionvars, sheetvars, validatevars>>

call_to_sectionedsheet ==
    /\ pc = "constructed"
    /\ samplesheet.ok
    /\ \E validate_schema \in BOOLEAN :
           resheet' = to_sectionedsheet(samplesheet, validate_schema)
    /\ pc' = "to_sectionedsheet"
    /\ UNCHANGED <<entry, given, secsheet, cells, samplesheet, pairvars, mainvars, cyclestr,
                   cycles, doc, mindist, verdict, sectionvars, sheetvars, validatevars>>

NextSampleSheet ==
    \/ call_constructor
    \/ call_to_sectionedsheet

SpecSampleSheet == InitSampleSheet /\ [][NextSampleSheet]_vars

-----------------------------------------------------------------------------
(* SpecMain: one run of the command-line tool, a try block at a time.  The *)
(* input holds the sheet <<secsheet, cells>> if it can be read.            *)

MaxSchemas == 1

Formats == {"json", "sectioned", "v2", "xml"}

\* a --schema argument: a $ref to the library's schema, a number, or a text
\* that is no JSON
SchemaArguments == {"{\"$ref\": \"urn:samshee:illuminav2/v1\"}", "1", "{"}

InitMain ==
    /\ pc = "main"
    /\ \E i \in Formats \ {"v2"}, o \in Formats :
           \E n \in 0..MaxSchemas : \E schemas \in [1..n -> SchemaArguments] :
               args = [input_format |-> i, output_format |-> o, schema |-> schemas]
    /\ env \in [readable : BOOLEAN, stdout : {"open", "print raises", "flush fails"}]
    /\ \E names \in SheetOrders :
           /\ secsheet = [i \in 1..Len(names) |-> <<names[i], i>>]
           /\ cells \in [1..Len(names) -> UNION {SectionChoices(name) : name \in SheetNames}]
           /\ \A i \in 1..Len(names) : cells[i] \in SectionChoices(names[i])
    /\ status = None
    /\ stdout = <<>>
    /\ steps = <<>>
    /\ entry = ""
    /\ given = [validation |-> <<>>, registry |-> <<>>]
    /\ samplesheet = NoSampleSheet(NoError, <<>>)
    /\ resheet = [ok |-> FALSE, sheet |-> <<>>, exc |-> NoError]
    /\ PairIdle
    /\ cyclestr = <<>>
    /\ cycles = CyclesRaises("not run", "", <<>>)
    /\ doc = NoDoc
    /\ mindist = None
    /\ verdict = NoVerdict
    /\ SectionIdle
    /\ SheetIdle
    /\ ValidateIdle

Exit(n, step_) ==
    /\ status' = <<n>>
    /\ steps' = Append(steps, step_)
    /\ pc' = "exit"

Continue(next, step_) ==
    /\ steps' = Append(steps, step_)
    /\ pc' = next
    /\ UNCHANGED status

\* lines 42-60: the sheet is read in the input format; sys.exit(3) is no
\* Exception and passes the except clause
main_read ==
    /\ pc = "main"
    /\ IF args.input_format \notin {"json", "sectioned"}
       THEN Exit(3, Step("read", "unknown format"))
       ELSE IF ~env.readable THEN Exit(1, Step("read", "read error"))
       ELSE Continue("read", Step("read", ""))
    /\ UNCHANGED <<args, env, stdout, v2vars, pairvars, cyclestr, cycles, doc, mindist,
                   verdict, sectionvars, sheetvars, validatevars>>

Validated(err) ==
    IF err # NoError
    THEN Exit(2, Step("validate", RaisedClass(err)))
    ELSE Continue("validated", Step("validate", ""))

\* lines 62-66: the sheet is validated with the schemas of the command line
main_validate ==
    /\ pc = "read"
    /\ Validated(ValidateSchemas(secsheet, cells, args.schema))
    /\ UNCHANGED <<args, env, stdout, v2vars, pairvars, cyclestr, cycles, doc, mindist,
                   verdict, sectionvars, sheetvars, validatevars>>

\* print(...): the text reaches standard output, or print raises, or the
\* text stays in the buffer and the flush at exit fails, for which the
\* interpreter exits with 120
PrintSheet(out) ==
    IF env.stdout = "print raises"
    THEN Exit(4, Step("emit", "write error")) /\ UNCHANGED stdout
    ELSE IF env.stdout = "flush fails"
    THEN Exit(120, Step("emit", "write error")) /\ UNCHANGED stdout
    ELSE /\ Exit(0, Step("emit", ""))
         /\ stdout' = Append(stdout, [format |-> args.output_format, sheet |-> out.sheet])

Emit(out) ==
    IF ~out.ok
    THEN Exit(4, Step("emit", RaisedClass(out.exc))) /\ UNCHANGED stdout
    ELSE PrintSheet(out)

\* lines 69-84: the sheet is printed in the output format
main_emit ==
    /\ pc = "validated"
    /\ IF args.output_format \notin {"json", "v2", "sectioned"}
       THEN Exit(3, Step("emit", "unknown format")) /\ UNCHANGED stdout
       ELSE Emit(Printed(args.output_format, secsheet, cells,
                         SampleSheetV2(secsheet, cells, DefaultValidation,
                                       samsheeschemaregistry)))
    /\ UNCHANGED <<args, env, v2vars, pairvars, cyclestr, cycles, doc, mindist,
                   verdict, sectionvars, sheetvars, validatevars>>

NextMain ==
    \/ main_read
    \/ main_validate
    \/ main_emit

SpecMain == InitMain /\ [][NextMain]_vars

-----------------------------------------------------------------------------
(* The claims *)

\* C1: JSON round trip.  Whenever a sheet that parse_sectionedsheet returned is
\* written with to_json and read back with parse_sectionedsheet_from_json, the
\* result is a sheet with the same section names in the same order, each
\* section of the same shape, with equal keys and values of the same type.
C1_JsonRoundTrip ==
    (pc = "from_json" /\ sheet.ok) =>
        (fromjson.ok /\ fromjson.sheet = sheet.sheet)

\* C2: textual round trip.  Whenever a sheet that parse_sectionedsheet returned
\* is rendered with str, the rendering succeeds, and parsing the rendering
\* succeeds and gives a sheet equal to the first: the same names in the same
\* order, the same shapes, keys, columns and cell values, missing cells included.
C2_TextRoundTrip ==
    /\ pc = "str" => rendered.ok
    /\ pc = "reparsed" => (reparsed.ok /\ reparsed.sheet = sheet.sheet)

\* the names of SectionNames by the suffix the claims speak of
NamesEndingInSettings == {Name_Data_Settings}
NamesEndingInData == {Name_X_DATA}
UntypedNames == {Name_Reads}

\* C3: suffix-driven type inference.  For a name ending in "settings",
\* parse_anything calls parse_settings only and returns a Settings section or
\* raises what parse_settings raised; for a name ending in "data" and not in
\* "settings" it calls parse_data only and returns a Data section or raises
\* what parse_data raised.  No other parser is tried after a failure.
C3_SuffixForcesShape ==
    pc = "parse_anything" =>
        /\ secname \in NamesEndingInSettings =>
              /\ attempted = <<"parse_settings">>
              /\ result = parse_settings(contents)
              /\ result.ok => result.sec.kind = "Settings"
        /\ secname \in NamesEndingInData =>
              /\ attempted = <<"parse_data">>
              /\ result = parse_data(contents)
              /\ result.ok => result.sec.kind = "Data"

\* C3 witness: a section named Data_Settings whose body is no Settings but would
\* parse as Data was given to parse_anything, which raised
C3_Witness ==
    /\ pc = "parse_anything"
    /\ secname = Name_Data_Settings
    /\ ~result.ok
    /\ parse_data(contents).ok

LinesOf(body) == csv_reader(lstrip(body, {LF, CR, SP})).rows

RECURSIVE DropTrailingEmpty(_)
DropTrailingEmpty(row) ==
    IF row # <<>> /\ row[Len(row)] = <<>>
    THEN DropTrailingEmpty(SubSeq(row, 1, Len(row) - 1))
    ELSE row

NoMeaningfulField(row) == \A i \in 1..Len(row) : row[i] = <<>>

\* C5: Settings line shape.  parse_settings succeeds exactly when every line of
\* the body that is not blank and has a meaningful field has exactly two fields
\* once a trailing empty field is dropped; blank lines and lines without a
\* meaningful field are skipped wherever they are, and a line with another
\* number of fields makes the parse fail wherever it is.
C5_SettingsLineShape ==
    (pc = "parse_settings" /\ ~csv_reader(lstrip(contents, {LF, CR, SP})).err) =>
        (result.ok <=>
            \A i \in 1..Len(LinesOf(contents)) :
                \/ NoMeaningfulField(LinesOf(contents)[i])
                \/ Len(DropTrailingEmpty(LinesOf(contents)[i])) = 2)

\* C6: Data column invariant.  In every Data section parse_data returns, each
\* record has exactly the non-blank names of the header row as its keys.
C6_DataColumns ==
    (pc = "parse_data" /\ result.ok) =>
        LET header == LinesOf(contents)[1]
            names == {PyStr(header[i]) : i \in {j \in 1..Len(header) : ~IsBlank(header[j])}}
        IN \A i \in 1..Len(result.sec.rows) : KeySet(result.sec.rows[i]) = names

\* the number of records of a Data section
DataLen(sec) == Len(sec.rows) + Len(sec.elems)

NonEmptyData(res) ==
    res.ok => \A i \in 1..Len(res.sheet) :
                  res.sheet[i][2].kind = "Data" => DataLen(res.sheet[i][2]) >= 1

\* C7: Data non-emptiness.  Every Data section of a sheet obtained from
\* parse_sectionedsheet or from parse_sectionedsheet_from_json holds at least
\* one record.
C7_DataNonEmpty ==
    /\ NonEmptyData(sheet)
    /\ NonEmptyData(fromjson)
    /\ NonEmptyData(reparsed)

\* a validator passes: a schema without violations, a callable that does not raise
Passes(v) ==
    \/ v.kind = "dict" /\ v.errs = <<>>
    \/ v.kind = "callable" /\ ~v.raises

\* C8: the configuration check comes first.  If some element of the validation
\* list is neither a dict nor callable, no validator is ever evaluated or
\* invoked, validate does not return, and what it raises is the configuration
\* error.
C8_ConfigurationCheckFirst ==
    (\E i \in 1..Len(validation.items) : validation.items[i].kind = "other") =>
        /\ invoked = <<>>
        /\ pc # "returned"
        /\ pc = "raised" => error.by = "config"

\* C8 witness: validate raised the configuration error for a list whose first
\* element is a schema with violations, which was not evaluated
C8_Witness ==
    /\ pc = "raised"
    /\ error.by = "config"
    /\ error.i >= 1
    /\ validators[1].kind = "dict"
    /\ validators[1].errs # <<>>
    /\ invoked = <<>>

\* C9: fail-fast ordering.  The validators are run in list order; validator i
\* is run only if all before it passed; once one reports a violation validate
\* raises and runs no later one; validate returns only if every validator
\* passed and raises only if one did not.
C9_FailFast ==
    /\ \A k \in 1..Len(invoked) : invoked[k] = k
    /\ \A k \in 1..Len(invoked) : \A j \in 1..(k - 1) : Passes(validators[j])
    /\ (invoked # <<>> /\ ~Passes(validators[Len(invoked)])) =>
           /\ pc = "raised"
           /\ error.i = Len(invoked) - 1
    /\ pc = "returned" =>
           /\ \A k \in 1..Len(validators) : Passes(validators[k])
           /\ Len(invoked) = Len(validators)
    /\ (pc = "raised" /\ validation.form # "none") =>
           \E k \in 1..Len(validators) : ~Passes(validators[k])

\* C9 witness: the second of three validators reported a violation and the
\* third, which would pass, was not run
C9_Witness ==
    /\ pc = "raised"
    /\ Len(validators) = 3
    /\ invoked = <<1, 2>>
    /\ Passes(validators[3])

\* C10: schema violation aggregation.  When validate raises for a schema, the
\* schema has at least one violation and the message names the path and the
\* message of every violation it has; a schema without violations raises
\* nothing.
C10_SchemaAggregation ==
    /\ (pc = "raised" /\ error.by = "schema") =>
           LET errs == validators[error.i + 1].errs
           IN /\ Len(errs) >= 1
              /\ \A k \in 1..Len(errs) :
                     \E l \in 1..Len(error.lines) : error.lines[l] = errs[k]
    /\ \A k \in 1..Len(invoked) :
           (validators[k].kind = "dict" /\ validators[k].errs = <<>>) =>
               ~(pc = "raised" /\ error.i = k - 1)

\* C10 witness: a schema with two violations, the second being the constant of
\* Header.FileFormatVersion, raised one error that names both
C10_Witness ==
    /\ pc = "raised"
    /\ error.by = "schema"
    /\ Len(validators[error.i + 1].errs) = 2
    /\ error.lines[1] # error.lines[2]
    /\ error.lines[2] = <<"$.Header.FileFormatVersion", "2 was expected">>


\* The OverrideCycles pattern of the BCLConvert_Settings schema,
\* ^([NYIU][0-9]+;?){1,}$, on s from index i on
RECURSIVE MatchesPattern(_, _)
MatchesPattern(s, i) ==
    /\ i <= Len(s)
    /\ s[i] \in CycleLetters
    /\ LET k == Span(s, i + 1, DigitChars)
           m == IF k <= Len(s) /\ s[k] = SEMICOLON THEN k + 1 ELSE k
       IN k > i + 1 /\ (m > Len(s) \/ MatchesPattern(s, m))

OverrideCyclesPattern(s) == MatchesPattern(s, 1)

\* A segment of runs (letter)(count), read run by run from index i on: each
\* letter repeated count times, and the sum of the counts
RECURSIVE RunsExpansion(_, _)
RunsExpansion(seg, i) ==
    IF i > Len(seg) THEN <<>>
    ELSE LET k == Span(seg, i + 1, DigitChars)
         IN Repeat(<<seg[i]>>, DecimalValue(SubSeq(seg, i + 1, k - 1)))
                \o RunsExpansion(seg, k)

RECURSIVE SumOfCounts(_, _)
SumOfCounts(seg, i) ==
    IF i > Len(seg) THEN 0
    ELSE LET k == Span(seg, i + 1, DigitChars)
         IN DecimalValue(SubSeq(seg, i + 1, k - 1)) + SumOfCounts(seg, k)

\* The roles the segment count and the letters of the segments call for
AssignedRoles(segs) ==
    IF Len(segs) = 1 THEN <<"Read1Cycles">>
    ELSE IF Len(segs) = 2
    THEN <<"Read1Cycles",
           IF Contains(segs[2], "Y") \/ Contains(segs[2], "U")
           THEN "Read2Cycles" ELSE "Index1Cycles">>
    ELSE IF Len(segs) = 3
    THEN <<"Read1Cycles", "Index1Cycles",
           IF Contains(segs[3], "Y") THEN "Read2Cycles" ELSE "Index2Cycles">>
    ELSE <<"Read1Cycles", "Index1Cycles", "Index2Cycles", "Read2Cycles">>

\* C11: for a cycle specification that matches the OverrideCycles pattern,
\* parse_overrideCycles raises when there are more than 4 segments, and a
\* result it returns has exactly the roles the segment count calls for, in
\* order (the second of 2 segments is Read2Cycles if the segment contains Y or
\* U, else Index1Cycles; the third of 3 is Read2Cycles if the segment contains
\* Y, else Index2Cycles), the i-th role holding the expansion of the i-th
\* segment, whose length is the sum of the segment's counts.
C11_RoleAssignment ==
    (pc = "parse_overrideCycles" /\ OverrideCyclesPattern(cyclestr)) =>
        LET segs == split(cyclestr, SEMICOLON)
        IN /\ Len(segs) \notin 1..4 => ~cycles.ok
           /\ cycles.ok =>
                /\ Keys(cycles.cycles) = AssignedRoles(segs)
                /\ \A i \in 1..Len(segs) :
                      /\ cycles.cycles[i][2] = RunsExpansion(segs[i], 1)
                      /\ Len(cycles.cycles[i][2]) = SumOfCounts(segs[i], 1)

ReadRoles == {"Read1Cycles", "Read2Cycles"}
IndexRoles == {"Index1Cycles", "Index2Cycles"}
RoleErrors == {"is not a read", "contains reads"}

HasReadOrUmi(seq) == \E i \in 1..Len(seq) : seq[i] \in {"Y", "U"}

\* A read without a read-or-UMI letter, an index with one
Offends(role, seq) ==
    IF role \in ReadRoles THEN ~HasReadOrUmi(seq) ELSE HasReadOrUmi(seq)

\* The segment a role is taken from: the position of the role among the
\* segments
SegmentOf(role, segs) ==
    IF role = "Read1Cycles" THEN segs[1]
    ELSE IF role = "Index1Cycles" THEN segs[2]
    ELSE IF role = "Index2Cycles" THEN segs[3]
    ELSE segs[Len(segs)]

\* The assignment is made: every segment expands, there are 1 to 4 segments
\* and the third of three has a letter
Assignable(segs) ==
    /\ Len(segs) \in 1..4
    /\ \A i \in 1..Len(segs) : expand(segs[i]).ok
    /\ Len(segs) = 3 => \E i \in 1..Len(segs[3]) : segs[3][i] \in CycleLetters

C13_UmiInIndex2 ==
    LET segs == split(cyclestr, SEMICOLON)
    IN (/\ pc = "parse_overrideCycles"
        /\ OverrideCyclesPattern(cyclestr)
        /\ Len(segs) \in {3, 4}
        /\ Assignable(segs)
        /\ HasReadOrUmi(expand(segs[1]).text)
        /\ ~HasReadOrUmi(expand(segs[2]).text)
        /\ ~Contains(segs[3], "Y")
        /\ Contains(expand(segs[3]).text, "U")
        /\ Len(segs) = 4 => HasReadOrUmi(expand(segs[4]).text))
       => /\ cycles.ok
          /\ HasKey(cycles.cycles, "Index2Cycles")
          /\ Get(cycles.cycles, "Index2Cycles") = expand(segs[3]).text

NotInReads ==
    "BCLConvert_Settings.OverrideCycles defines it, but it is not specified in the Reads section"
OtherLength ==
    "Reads has it, but BCLConvert_Settings.OverrideCycles specifies another length"
NotInCycles ==
    "Reads defines it, but BCLConvert_Settings.OverrideCycles is incompatible with it"

\* (a) every role of the parsed cycles is in Reads with the length of its
\* expansion; (b) every role Reads declares is a role of the parsed cycles
RolesMatchReads(parsed, readsettings) ==
    \A i \in 1..Len(parsed) :
        /\ HasKey(readsettings, parsed[i][1])
        /\ Get(readsettings, parsed[i][1]) = Len(parsed[i][2])

ReadsAreRoles(parsed, readsettings) ==
    \A i \in 1..Len(Roles) : HasKey(readsettings, Roles[i]) => HasKey(parsed, Roles[i])

HasOverrideCycles ==
    /\ HasKey(doc, "BCLConvert_Settings")
    /\ HasKey(doc, "Reads")
    /\ HasKey(Get(doc, "BCLConvert_Settings"), "OverrideCycles")

\* C14: for a sheet with Reads and BCLConvert_Settings.OverrideCycles,
\* illuminasamplesheetv2logic accepts only if the cycles parse, (a) every
\* parsed role is a key of Reads whose value is the length of the role's
\* expansion and (b) every role declared in Reads is a parsed role; when the
\* cycles parse and (a) or (b) fails it raises an error that names a role
\* for which (a) or (b) fails.
C14_CrossSection ==
    (pc = "illuminasamplesheetv2logic" /\ HasOverrideCycles) =>
        LET readsettings == Get(doc, "Reads")
            parsed == parse_overrideCycles(Get(Get(doc, "BCLConvert_Settings"), "OverrideCycles"))
        IN /\ verdict.ok =>
                /\ parsed.ok
                /\ RolesMatchReads(parsed.cycles, readsettings)
                /\ ReadsAreRoles(parsed.cycles, readsettings)
           /\ (/\ parsed.ok
               /\ ~(/\ RolesMatchReads(parsed.cycles, readsettings)
                    /\ ReadsAreRoles(parsed.cycles, readsettings))) =>
                /\ ~verdict.ok
                /\ \/ /\ verdict.kind = NotInReads
                      /\ HasKey(parsed.cycles, verdict.role)
                      /\ ~HasKey(readsettings, verdict.role)
                   \/ /\ verdict.kind = OtherLength
                      /\ HasKey(parsed.cycles, verdict.role)
                      /\ HasKey(readsettings, verdict.role)
                      /\ Get(readsettings, verdict.role) # Len(Get(parsed.cycles, verdict.role))
                   \/ /\ verdict.kind = NotInCycles
                      /\ HasKey(readsettings, verdict.role)
                      /\ ~HasKey(parsed.cycles, verdict.role)

\* every parsed role is in Reads with its length, Reads declares Index1Cycles
\* too, and the error names it
C14_Witness ==
    /\ pc = "illuminasamplesheetv2logic"
    /\ HasOverrideCycles
    /\ verdict.kind = NotInCycles
    /\ verdict.role = "Index1Cycles"
    /\ Len(parse_overrideCycles(Get(Get(doc, "BCLConvert_Settings"), "OverrideCycles")).cycles) = 2

Adapter1Longer == "BCLConvert_Settings.AdapterRead1 is longer then Reads.Read1Cycles"
Adapter2Longer == "BCLConvert_Settings.AdapterRead2 is longer then Reads.Read2Cycles"
Adapter2NoRead2 ==
    "AdapterRead2 defined in BCLConvert_Settings, but no Read2Cycles entry in Reads"

\* the errors the OverrideCycles part raises, before the adapters are looked at
OverrideCyclesErrors ==
    {NotInReads, OtherLength, NotInCycles, "ValueError",
     "cannot determine type of third element", "defines too many elements"}
        \cup RoleErrors

\* AdapterRead1 is declared and longer than Reads.Read1Cycles
Adapter1TooLong(convertsettings, readsettings) ==
    /\ HasKey(convertsettings, "AdapterRead1")
    /\ Len(Get(convertsettings, "AdapterRead1")) > Get(readsettings, "Read1Cycles")

\* AdapterRead2 is declared and Reads has no Read2Cycles
Adapter2Unmatched(convertsettings, readsettings) ==
    /\ HasKey(convertsettings, "AdapterRead2")
    /\ ~HasKey(readsettings, "Read2Cycles")

\* AdapterRead2 is declared and longer than Reads.Read2Cycles
Adapter2TooLong(convertsettings, readsettings) ==
    /\ HasKey(convertsettings, "AdapterRead2")
    /\ HasKey(readsettings, "Read2Cycles")
    /\ Len(Get(convertsettings, "AdapterRead2")) > Get(readsettings, "Read2Cycles")

\* C15: for a sheet with BCLConvert_Settings and a Reads that has
\* Read1Cycles, illuminasamplesheetv2logic does not accept when AdapterRead1
\* is longer than Reads.Read1Cycles, when AdapterRead2 is declared without
\* Reads.Read2Cycles, or when AdapterRead2 is longer than Reads.Read2Cycles,
\* and unless the OverrideCycles part has raised before, the error it raises
\* is the adapter error of the first of these that applies; an adapter error
\* is raised only for an adapter that is declared and too long or unmatched.
C15_AdapterLength ==
    (/\ pc = "illuminasamplesheetv2logic"
     /\ HasKey(doc, "BCLConvert_Settings")
     /\ HasKey(doc, "Reads")
     /\ HasKey(Get(doc, "Reads"), "Read1Cycles")) =>
        LET convertsettings == Get(doc, "BCLConvert_Settings")
            readsettings == Get(doc, "Reads")
            expected ==
                IF Adapter1TooLong(convertsettings, readsettings) THEN Adapter1Longer
                ELSE IF Adapter2Unmatched(convertsettings, readsettings) THEN Adapter2NoRead2
                ELSE IF Adapter2TooLong(convertsettings, readsettings) THEN Adapter2Longer
                ELSE ""
        IN /\ expected # "" =>
                /\ ~verdict.ok
                /\ verdict.kind \notin OverrideCyclesErrors => verdict.kind = expected
           /\ verdict.kind = Adapter1Longer => Adapter1TooLong(convertsettings, readsettings)
           /\ verdict.kind = Adapter2NoRead2 => Adapter2Unmatched(convertsettings, readsettings)
           /\ verdict.kind = Adapter2Longer => Adapter2TooLong(convertsettings, readsettings)

\* AdapterRead1 as long as Read1Cycles causes no error, AdapterRead2 is
\* longer than Read2Cycles
C15_Witness ==
    /\ pc = "illuminasamplesheetv2logic"
    /\ HasKey(doc, "BCLConvert_Settings")
    /\ HasKey(doc, "Reads")
    /\ HasKey(Get(doc, "Reads"), "Read1Cycles")
    /\ HasKey(Get(doc, "BCLConvert_Settings"), "AdapterRead1")
    /\ Len(Get(Get(doc, "BCLConvert_Settings"), "AdapterRead1"))
          = Get(Get(doc, "Reads"), "Read1Cycles")
    /\ verdict.kind = Adapter2Longer

\* The Hamming distance of two index texts over their common prefix
Hamming(a, b) ==
    Cardinality({i \in 1..(IF Len(a) < Len(b) THEN Len(a) ELSE Len(b)) : a[i] # b[i]})

IndexFields == <<"Index", "Index2">>
MismatchNames == <<"BarcodeMismatchesIndex1", "BarcodeMismatchesIndex2">>

\* The threshold of the n-th index field: the mismatch setting, 1 without it
Threshold(n) ==
    IF /\ HasKey(doc, "BCLConvert_Settings")
       /\ HasKey(Get(doc, "BCLConvert_Settings"), MismatchNames[n])
    THEN Get(Get(doc, "BCLConvert_Settings"), MismatchNames[n])
    ELSE 1

SampleTable == Get(doc, "BCLConvert_Data")

\* A sample table in which every sample has the fields of the first, with at
\* least one index field
UniformTable ==
    /\ HasKey(doc, "BCLConvert_Data")
    /\ Len(SampleTable) >= 1
    /\ \A i \in 1..Len(SampleTable) : KeySet(SampleTable[i]) = KeySet(SampleTable[1])
    /\ \E n \in 1..2 : HasKey(SampleTable[1], IndexFields[n])

\* Two samples of one lane group: the same Lane, or none has a Lane
SameLaneGroup(i, j) ==
    IF HasKey(SampleTable[i], "Lane")
    THEN HasKey(SampleTable[j], "Lane")
            /\ Get(SampleTable[i], "Lane") = Get(SampleTable[j], "Lane")
    ELSE ~HasKey(SampleTable[j], "Lane")

\* Two samples within the threshold in every index field they have
WithinThresholds(i, j) ==
    \A n \in 1..2 :
        HasKey(SampleTable[i], IndexFields[n]) =>
            Hamming(Get(SampleTable[i], IndexFields[n]), Get(SampleTable[j], IndexFields[n]))
                <= Threshold(n)

IndistinguishablePair ==
    \E i, j \in 1..Len(SampleTable) : i < j /\ SameLaneGroup(i, j) /\ WithinThresholds(i, j)

\* C16: called without mindist on a uniform sample table,
\* check_index_distance raises if and only if two distinct samples of one
\* lane group are within the threshold in every index field they have, the
\* threshold being the BarcodeMismatchesIndex1 / BarcodeMismatchesIndex2
\* setting, or 1 without it.
C16_IndistinguishablePairs ==
    (pc = "check_index_distance" /\ mindist = None /\ UniformTable) =>
        (~verdict.ok <=> IndistinguishablePair)

\* Two samples without Lane, Index TTTT and TTTA, the same Index2, and
\* BarcodeMismatchesIndex1 = 0; check_index_distance was called without
\* mindist
ZeroMismatchCase ==
    /\ pc = "check_index_distance"
    /\ mindist = None
    /\ HasKey(doc, "BCLConvert_Data")
    /\ Len(SampleTable) = 2
    /\ \A i \in 1..2 : KeySet(SampleTable[i]) = {"Index", "Index2"}
    /\ Get(SampleTable[1], "Index") = <<"T", "T", "T", "T">>
    /\ Get(SampleTable[2], "Index") = <<"T", "T", "T", "A">>
    /\ Get(SampleTable[1], "Index2") = Get(SampleTable[2], "Index2")
    /\ HasKey(doc, "BCLConvert_Settings")
    /\ HasKey(Get(doc, "BCLConvert_Settings"), "BarcodeMismatchesIndex1")
    /\ Get(Get(doc, "BCLConvert_Settings"), "BarcodeMismatchesIndex1") = 0

\* C17, as stated: with Index TTTT / TTTA (distance 1), identical Index2 and
\* BarcodeMismatchesIndex1 = 0, check_index_distance fails.
C17_ZeroMismatchFails == ZeroMismatchCase => ~verdict.ok

\* C17, amended: with Index TTTT / TTTA (distance 1), identical Index2 and
\* BarcodeMismatchesIndex1 = 0, check_index_distance called without mindist
\* accepts: distance 1 is above the threshold 0, so the pair is
\* distinguishable by Index.
C17_ZeroMismatchAccepts == ZeroMismatchCase => verdict.ok

C17_Witness ==
    /\ ZeroMismatchCase
    /\ verdict.ok
    /\ ~HasKey(Get(doc, "BCLConvert_Settings"), "BarcodeMismatchesIndex2")

\* The index texts of a sample joined: Index, then Index2
JoinedIndex(i) ==
    (IF HasKey(SampleTable[i], "Index") THEN Get(SampleTable[i], "Index") ELSE <<>>)
        \o (IF HasKey(SampleTable[i], "Index2") THEN Get(SampleTable[i], "Index2") ELSE <<>>)

\* Two distinct samples of one lane group whose joined indices are closer
\* than m
CombinedPairBelow(m) ==
    \E i, j \in 1..Len(SampleTable) :
        i < j /\ SameLaneGroup(i, j) /\ Hamming(JoinedIndex(i), JoinedIndex(j)) < m

\* C18: called with mindist = m >= 1 on a uniform sample table in which no
\* two distinct samples of a lane group are within the per-field thresholds,
\* check_index_distance raises if and only if two distinct samples of one
\* lane group have joined indices (Index, then Index2) at a Hamming distance
\* below m.
C18_CombinedMinimumDistance ==
    (/\ pc = "check_index_distance"
     /\ mindist # None
     /\ mindist[1] >= 1
     /\ UniformTable
     /\ ~IndistinguishablePair) =>
        (~verdict.ok <=> CombinedPairBelow(mindist[1]))

\* C19: called with a mindist that is not None and below 1,
\* check_index_distance raises ValueError, which is neither of the two
\* errors for indistinguishable indices, whatever the sheet holds: no sample
\* table, an empty one, or samples that are or are not distinguishable.
C19_MindistPrecondition ==
    (pc = "check_index_distance" /\ mindist # None /\ mindist[1] < 1) =>
        /\ ~verdict.ok
        /\ verdict.kind = "ValueError"
        /\ verdict.kind \notin {TooClose, CombinedTooClose}
        /\ verdict.pairs = <<>>

\* mindist = 0 and a sheet without BCLConvert_Data, whose lookup would raise
\* KeyError if it were made
C19_Witness ==
    /\ pc = "check_index_distance"
    /\ mindist = <<0>>
    /\ ~HasKey(doc, "BCLConvert_Data")
    /\ verdict.kind = "ValueError"

\* The index entry of a sample as an error lists it: its index texts, or its
\* joined index in the error of the combined check
ListedEntry(i) ==
    IF verdict.kind = CombinedTooClose THEN <<JoinedIndex(i)>>
    ELSE IF HasKey(SampleTable[i], "Index") /\ HasKey(SampleTable[i], "Index2")
    THEN <<Get(SampleTable[i], "Index"), Get(SampleTable[i], "Index2")>>
    ELSE IF HasKey(SampleTable[i], "Index") THEN <<Get(SampleTable[i], "Index")>>
    ELSE <<Get(SampleTable[i], "Index2")>>

ListedPairs == {<<verdict.pairs[k].a, verdict.pairs[k].b>> : k \in 1..Len(verdict.pairs)}

EveryLane == \A i \in 1..Len(SampleTable) : HasKey(SampleTable[i], "Lane")
NoLane == \A i \in 1..Len(SampleTable) : ~HasKey(SampleTable[i], "Lane")

\* C20: on a uniform sample table of a sheet with BCLConvert_Settings: when
\* every sample has a Lane, the two entries of every pair an error lists are
\* the entries of samples with equal Lane, and two distinct samples with
\* equal Lane within the thresholds are not accepted; when no sample has a
\* Lane and check_index_distance is called without mindist on two or more
\* samples, the pairs listed are exactly the pairs of distinct samples within
\* the thresholds.
C20_LaneGrouping ==
    (pc = "check_index_distance" /\ UniformTable /\ HasKey(doc, "BCLConvert_Settings")
        /\ ~(mindist # None /\ mindist[1] < 1)) =>
        /\ EveryLane =>
              /\ \A p \in ListedPairs :
                    \E i, j \in 1..Len(SampleTable) :
                        /\ Get(SampleTable[i], "Lane") = Get(SampleTable[j], "Lane")
                        /\ p = <<ListedEntry(i), ListedEntry(j)>>
              /\ IndistinguishablePair => ~verdict.ok
        /\ (NoLane /\ mindist = None /\ Len(SampleTable) >= 2) =>
              ListedPairs = {<<ListedEntry(c[1]), ListedEntry(c[2])>> :
                                c \in {d \in (1..Len(SampleTable)) \X (1..Len(SampleTable)) :
                                         d[1] < d[2] /\ WithinThresholds(d[1], d[2])}}

\* two samples with the same index in different lanes, accepted
C20_Witness ==
    /\ pc = "check_index_distance"
    /\ UniformTable
    /\ Len(SampleTable) = 2
    /\ EveryLane
    /\ Get(SampleTable[1], "Lane") # Get(SampleTable[2], "Lane")
    /\ Get(SampleTable[1], "Index") = Get(SampleTable[2], "Index")
    /\ verdict.ok

\* No two distinct samples of the table are in one lane group: every lane
\* group holds exactly one sample
SingleSampleGroups ==
    \A i, j \in 1..Len(SampleTable) : i < j => ~SameLaneGroup(i, j)

\* C21: on a uniform sample table of a sheet with BCLConvert_Settings in
\* which every lane group holds exactly one sample, check_index_distance
\* raises neither of the two errors for indistinguishable indices, whatever
\* the length of the index and whatever mindist is.
C21_OnlyPairsJudged ==
    (/\ pc = "check_index_distance"
     /\ UniformTable
     /\ HasKey(doc, "BCLConvert_Settings")
     /\ SingleSampleGroups) =>
        verdict.kind \notin {TooClose, CombinedTooClose}

\* C22: pairwise_index_distance(a, b) is the number of positions within the
\* shorter of the two texts at which they differ: positions beyond the
\* shorter text add nothing, and the result is the same with a and b
\* exchanged.
C22_PrefixHamming ==
    pc = "pairwise_index_distance" =>
        /\ distance = <<Hamming(index_a, index_b)>>
        /\ distance = <<pairwise_index_distance(index_b, index_a)>>
        /\ distance[1] <= (IF Len(index_a) < Len(index_b) THEN Len(index_a) ELSE Len(index_b))

\* texts of different lengths that differ within the shorter one and beyond
C22_Witness ==
    /\ pc = "pairwise_index_distance"
    /\ index_a = <<"A", "C">>
    /\ index_b = <<"C", "C", "A">>
    /\ distance = <<1>>

CloudTable == Get(doc, "Cloud_Data")

\* Every record has a Sample_ID, every Sample_ID of one table occurs in the
\* other, and records with the same Sample_ID agree in each of Index and
\* Index2 that both carry
SameSamples ==
    /\ ~LacksSampleId(CloudTable)
    /\ ~LacksSampleId(SampleTable)
    /\ SampleIds(SampleTable) \subseteq SampleIds(CloudTable)
    /\ SampleIds(CloudTable) \subseteq SampleIds(SampleTable)
    /\ \A i \in 1..Len(CloudTable), j \in 1..Len(SampleTable) :
          Get(CloudTable[i], "Sample_ID") = Get(SampleTable[j], "Sample_ID") =>
              ~IndexDiffers(CloudTable[i], SampleTable[j])

\* C23: basespacelogic accepts a sheet only if every Sample_ID of
\* BCLConvert_Data occurs in Cloud_Data and conversely, and all records with
\* the same Sample_ID, also when it occurs more than once in a table, have
\* equal values in each of Index and Index2 that both carry.
C23_CrossTableIdentity ==
    (pc = "basespacelogic" /\ verdict.ok) => SameSamples

\* Two samples with identical Index and, where the table has it, identical
\* Index2
SameIndices(i, j) ==
    /\ Get(SampleTable[i], "Index") = Get(SampleTable[j], "Index")
    /\ HasKey(SampleTable[i], "Index2") =>
          Get(SampleTable[i], "Index2") = Get(SampleTable[j], "Index2")

\* C28: for a sample table of two or more samples with the same fields, all
\* with an Index, that passes the index-length checks,
\* illuminasamplesheetv2logic raises 'Indices are not unique' if and only if
\* two samples of one lane group (the same Lane, or any two when there is no
\* Lane) have identical Index and identical Index2; samples that differ in
\* Index or in Index2 are not reported.
C28_IndexUniqueness ==
    (/\ pc = "illuminasamplesheetv2logic"
     /\ HasKey(doc, "BCLConvert_Data")
     /\ Len(SampleTable) > 1
     /\ \A i \in 1..Len(SampleTable) :
           HasKey(SampleTable[i], "Index") /\ KeySet(SampleTable[i]) = KeySet(SampleTable[1])
     /\ verdict.ok \/ verdict.kind = "Indices are not unique") =>
        (verdict.kind = "Indices are not unique"
            <=> \E i, j \in 1..Len(SampleTable) :
                    i < j /\ SameLaneGroup(i, j) /\ SameIndices(i, j))

\* C29: for a sheet with a Reads section and a BCLConvert_Data of two or
\* more samples that all carry an Index, illuminasamplesheetv2logic accepts
\* or raises one of its own errors: it does not raise KeyError for the cycle
\* role Index1Cycles or Index2Cycles.
C29_NoMissingRoleLookup ==
    (/\ pc = "illuminasamplesheetv2logic"
     /\ HasKey(doc, "Reads")
     /\ HasKey(doc, "BCLConvert_Data")
     /\ Len(SampleTable) > 1
     /\ \A i \in 1..Len(SampleTable) : HasKey(SampleTable[i], "Index")) =>
        ~(verdict.kind = "KeyError" /\ verdict.role \in {"Index1Cycles", "Index2Cycles"})

\* The lines of the body given to the parser, as lists of fields
BodyLines == csv_reader(lstrip(contents, {LF, CR, SP})).rows

\* The lines whose first field is non-empty and does not look like a header
ValueLines ==
    SelectSeq(BodyLines, LAMBDA row : Len(row) > 0 /\ row[1] # <<>> /\ ~IsHeader(row[1]))

\* C25: parse_array rejects a body in which some line has more than one
\* non-empty field, and otherwise returns, in order, the cast values of the
\* first fields of the lines whose first field is non-empty and does not look
\* like a section header.
C25_ArrayParsing ==
    (pc = "parse_array" /\ ~csv_reader(lstrip(contents, {LF, CR, SP})).err) =>
        IF \E i \in 1..Len(BodyLines) : ncols(BodyLines[i]) > 1
        THEN ~result.ok
        ELSE /\ result.ok
             /\ result.sec.kind = "Array"
             /\ result.sec.elems = [i \in 1..Len(ValueLines) |-> attempt_cast(PyStr(ValueLines[i][1]))]

\* The body of a sheet text that is one section named Reads
ReadsBody == SubSeq(text, Len(SectionText(Name_Reads, <<>>)) + 1, Len(text))

\* A text of one section, named Reads, whose body is a single column of two
\* or more values, one per line
SingleColumnSheet ==
    /\ Len(text) >= Len(SectionText(Name_Reads, <<>>))
    /\ text = SectionText(Name_Reads, ReadsBody)
    /\ Len(split(ReadsBody, LF)) >= 2
    /\ \A i \in 1..Len(split(ReadsBody, LF)) :
          /\ split(ReadsBody, LF)[i] # <<>>
          /\ \A j \in 1..Len(split(ReadsBody, LF)[i]) : split(ReadsBody, LF)[i][j] \in {"a", "1"}

\* C27: a section whose name ends with neither "settings" nor "data" and
\* whose body is a single column of two or more values is parsed by
\* parse_sectionedsheet as an Array section holding those values in order.
C27_MultiLineArray ==
    (SingleColumnSheet /\ sheet # SheetRaises("not run")) =>
        /\ sheet.ok
        /\ Keys(sheet.sheet) = <<Name_Reads>>
        /\ Get(sheet.sheet, Name_Reads).kind = "Array"
        /\ Get(sheet.sheet, Name_Reads).elems
              = [i \in 1..Len(split(ReadsBody, LF)) |-> parse_value(split(ReadsBody, LF)[i])]

\* The sheet passed in: its section names in order, each with the kind and
\* the value of its section object
PassedSheet == [i \in 1..Len(secsheet) |-> <<secsheet[i][1], cells[secsheet[i][2]]>>]

CallerVerdict == validate(secsheet, cells, given.validation, given.registry)

\* The header of the sheet, if any, is a Settings section, so that it can be
\* copied
HeaderIsSettings ==
    HasKey(secsheet, "Header") => cells[Get(secsheet, "Header")].kind = "Settings"

\* C30: whichever of SampleSheetV2, read_samplesheetv2,
\* parse_samplesheetv2_from_json and parse_samplesheetv2_from_object
\* constructs the object, the sheet is validated with the validation list
\* and the registry of the caller: a sheet they accept is accepted, one they
\* reject is rejected with their error, the object keeps that list and that
\* registry, and to_sectionedsheet validates with them again.
C30_CallerValidatorsHonoured ==
    pc \in {"constructed", "to_sectionedsheet"} =>
        /\ (CallerVerdict = NoError /\ HeaderIsSettings) => samplesheet.ok
        /\ CallerVerdict # NoError => (~samplesheet.ok /\ samplesheet.exc = CallerVerdict)
        /\ samplesheet.ok =>
              /\ samplesheet.validation = given.validation
              /\ samplesheet.registry = given.registry
        /\ pc = "to_sectionedsheet" =>
              resheet \in {to_sectionedsheet([samplesheet EXCEPT !.validation = given.validation,
                                                                !.registry = given.registry], b) :
                              b \in BOOLEAN}

\* the names of the steps made, and the class of the exception that ended the
\* last of them
StepNames == [i \in 1..Len(steps) |-> steps[i].step]
LastRaised == IF steps = <<>> THEN "" ELSE steps[Len(steps)].raised

\* C26: the tool reads, validates and emits in that order; it exits 0 if and
\* only if the three steps succeed; a read error exits 1, a validation error
\* 2, an unknown input or output format 3 and a write error 4; the sheet is
\* written to standard output only after reading and validation succeeded.
C26_ExitStatuses ==
    /\ \E n \in 0..3 : StepNames = SubSeq(<<"read", "validate", "emit">>, 1, n)
    /\ stdout # <<>> =>
          /\ Len(steps) = 3
          /\ steps[1].raised = ""
          /\ steps[2].raised = ""
    /\ pc = "exit" =>
          /\ status = <<0>> <=> (Len(steps) = 3 /\ \A i \in 1..3 : steps[i].raised = "")
          /\ LastRaised = "read error" => status = <<1>>
          /\ LastRaised = "validation error" => status = <<2>>
          /\ LastRaised = "unknown format" => status = <<3>>
          /\ LastRaised = "write error" => status = <<4>>

=============================================================================
